---- MODULE Spec2Model ----
(***************************************************************************)
(* Workflow orchestration of the earth synthetic-data generator:           *)
(*   - DatasetSpec and its get_execution_order()                           *)
(*       (app/workflows/dataset_orchestrator.py)                           *)
(*   - DatasetOrchestrator.execute(), sequential and thread-pool dispatch   *)
(*       (app/workflows/dataset_orchestrator.py)                           *)
(*   - BaseWorkflow.execute() as run by EntityWorkflow, batch by batch      *)
(*       (app/workflows/base.py, app/workflows/unified_workflow.py,        *)
(*        src/earth/core/loader.py)                                        *)
(* The specifications share the variables: SpecOrder, SpecOrch,            *)
(* SpecEntity, SpecConstruct, SpecBuild, SpecSummary and SpecWorkflow.     *)
(* Each leaves the components it does not run idle.                        *)
(***************************************************************************)
EXTENDS Integers, Sequences, FiniteSets, TLC

VARIABLES
  \* ---- DatasetSpec (a dataclass instance after __post_init__)
  workflows,            \* keys of the workflows dict, in insertion order
  counts,               \* workflows[name]: the target record count
  dependencies,         \* dict name -> list of prerequisite names (as a set)
  people_count,         \* legacy field: <<>> is None, <<n>> is the int n
  companies_count,      \* legacy field: <<>> is None, <<n>> is the int n
  spec_pc,              \* "call" | "ready" | "conflict" | "unknown_template"
  spec_args,            \* history: the arguments of the call that builds the spec
  \* ---- what the client's calls did
  validate_result,      \* what the last validate() of the spec did
  summary_calls,        \* how many times get_execution_summary() was called
  ratio_warnings,       \* the warnings the last validate() emitted
  raised_names,         \* workflows named by the exception a group runner raised
  \* ---- one call of DatasetSpec.get_execution_order()
  order_pc,             \* "idle" | "loop" | "returned" | "raised"
  remaining_workflows,  \* the local set remaining_workflows
  execution_groups,     \* the local list, then the orchestrator's attribute
  raised_remaining,     \* the list named by the raised ValueError ({} before)
  \* ---- DatasetOrchestrator
  workflow_steps,       \* name -> WorkflowStep
  overall_status,
  start_time,
  end_time,
  max_parallel_workflows,
  use_parallel,         \* argument of execute()
  pc,                   \* position of the thread that runs execute()
  group_idx,            \* 1-based index of the group being executed
  seq_idx,              \* position inside the group (sequential dispatch)
  queue,                \* work items submitted to the pool, not yet picked up
  max_workers,          \* size of the pool of the current group
  futures_done,         \* futures whose _execute_workflow_step has returned
  collected,            \* futures already yielded by as_completed
  \* ---- one BaseWorkflow.execute(target_records) call of an EntityWorkflow
  config,               \* WorkflowConfig
  generator_exact,      \* the Generator returns exactly the requested count
  target_records,
  total_generated,
  batch_count,
  batch_data,           \* len(batch_data) of the batch generated, not yet stored
  batch_defect,         \* what is wrong with that batch ("none": nothing)
  conn,                 \* "none" | "open" | "closed"
  table,                \* the target table of the store: [exists, rows]
  prior_rows,           \* row count of the table when execute() was called
  write_log,            \* history: <<[mode, size]>> of the writes that succeeded
  exc,                  \* the exception in flight (its str()), or None
  result,               \* the WorkflowResult being built
  epc                   \* position inside execute()

specVars   == <<workflows, counts, dependencies, people_count, companies_count,
                spec_pc, spec_args>>
callVars   == <<validate_result, summary_calls, ratio_warnings, raised_names>>
orderVars  == <<order_pc, remaining_workflows, execution_groups, raised_remaining>>
orchVars   == <<workflow_steps, overall_status, start_time, end_time,
                max_parallel_workflows, use_parallel, pc, group_idx, seq_idx,
                queue, max_workers, futures_done, collected>>
entityVars == <<config, generator_exact, target_records, total_generated,
                batch_count, batch_data, batch_defect, conn, table, prior_rows, write_log,
                exc, result, epc>>
vars       == <<specVars, callVars, orderVars, orchVars, entityVars>>

-----------------------------------------------------------------------------
(* Bounds of the model *)

MaxWorkflows == 3
MaxEdges == 3
MaxCount == 1
MaxParallel == 2
MaxTarget == 3
MaxBatch == 2
MaxPrior == 1
MaxSpecWorkflows == 2
MaxSpecEdges == 2
MaxSummaryCalls == 2

-----------------------------------------------------------------------------
(* Values *)

None == "None"

AVAILABLE_WORKFLOWS == {"people", "companies", "full_dataset"}

\* A name outside the registry, as in DatasetSpec(workflows={"ghost": 10}).
UnknownNames == {"ghost"}

Names == AVAILABLE_WORKFLOWS \cup UnknownNames

get_workflow_dependencies == [w \in {"people"} |-> {"companies"}]

Range(s) == {s[i] : i \in DOMAIN s}

IsInjective(s) == \A i, j \in DOMAIN s : s[i] = s[j] => i = j

\* The orders in which Python may iterate over the set S.
Perms(S) == {s \in [1..Cardinality(S) -> S] : IsInjective(s)}

Min(a, b) == IF a <= b THEN a ELSE b

-----------------------------------------------------------------------------
(* DatasetSpec *)

\* The key lists a workflows dict can have.
WorkflowsArgs ==
  {s \in UNION {[1..n -> Names] : n \in 0..MaxWorkflows} : IsInjective(s)}

DepEdges(d) == {<<k, p>> \in Names \X Names : k \in DOMAIN d /\ p \in d[k]}

DepSize(d) ==
  Cardinality(DepEdges(d)) + Cardinality({k \in DOMAIN d : d[k] = {}})

\* The dependencies dicts a caller can pass, up to MaxEdges entries.
DependenciesArgs ==
  {d \in UNION {[K -> SUBSET Names] : K \in SUBSET Names} : DepSize(d) <= MaxEdges}

\* __post_init__: an empty dependencies dict is replaced by the defaults of
\* the workflows present.
PostInitDependencies(wf, deps) ==
  IF DOMAIN deps = {} /\ Len(wf) > 0
  THEN [w \in Range(wf) \cap DOMAIN get_workflow_dependencies
          |-> get_workflow_dependencies[w]]
  ELSE deps

\* The legacy fields people_count and companies_count: None, or an int.
LegacyNone == <<>>

LegacyInt(n) == <<n>>

\* The arguments of DatasetSpec(...) or DatasetSpec.from_template(...).
NoArgs ==
  [method |-> "none", template_name |-> None, workflows |-> <<>>,
   counts |-> <<>>, dependencies |-> <<>>, people_count |-> LegacyNone,
   companies_count |-> LegacyNone]

\* A DatasetSpec after __post_init__ whose construction is not traced.
SpecBuilt ==
  /\ people_count = LegacyNone
  /\ companies_count = LegacyNone
  /\ spec_pc = "ready"
  /\ spec_args = NoArgs

\* self.dependencies.get(workflow, [])
DepsOf(deps, w) == IF w \in DOMAIN deps THEN deps[w] ELSE {}

\* validate() returns without raising.
ValidateOK(wf, cnt, deps) ==
  /\ Len(wf) > 0
  /\ \A w \in Range(wf) : cnt[w] > 0 /\ w \in AVAILABLE_WORKFLOWS
  /\ \A k \in DOMAIN deps : k \in Range(wf) /\ deps[k] \subseteq Range(wf)

\* validate() has not been called / returned normally / raised ValueError
\* with a message of the given kind that mentions the given name.
NotValidated == [kind |-> "not_called", name |-> None]

Validated == [kind |-> "ok", name |-> None]

ValidateRaised(kind, name) == [kind |-> kind, name |-> name]

\* The first workflow, in insertion order, that the loop over
\* workflows.items() raises for; 0 if there is none.
FirstBadWorkflow(wf, cnt) ==
  LET bad == {i \in 1..Len(wf) : cnt[wf[i]] <= 0 \/ wf[i] \notin AVAILABLE_WORKFLOWS}
  IN  IF bad = {} THEN 0 ELSE CHOOSE i \in bad : \A j \in bad : i <= j

\* The errors the loop over dependencies.items() can raise first: the first
\* key with a defect is any of them (the order of the dict and of its lists
\* is not kept by the model); a key that is no workflow is reported as the
\* target, otherwise a prerequisite that is no workflow is reported.
DependencyErrors(wf, deps) ==
  {ValidateRaised("dependency_target", k) : k \in DOMAIN deps \ Range(wf)}
  \cup {ValidateRaised("dependency", d) :
          d \in UNION {deps[k] \ Range(wf) : k \in DOMAIN deps \cap Range(wf)}}

\* validate_full_dataset_ratios(workflows): the list of warnings.  With both
\* workflows present and companies_count > 0, ratio = people / companies;
\* ratio < 5 is people < 5 * companies, ratio > 50 is people > 50 * companies.
validate_full_dataset_ratios(wf, cnt) ==
  IF {"people", "companies"} \subseteq Range(wf) /\ cnt["companies"] > 0
  THEN IF cnt["people"] < 5 * cnt["companies"] THEN {"ratio_low"}
       ELSE IF cnt["people"] > 50 * cnt["companies"] THEN {"ratio_high"}
       ELSE {}
  ELSE {}

\* A bug: a ratio outside the recommended range is raised as an error.
ValidateOutcomesRatioFatal(wf, cnt, deps) ==
  IF Len(wf) = 0 THEN {ValidateRaised("empty", None)}
  ELSE IF FirstBadWorkflow(wf, cnt) # 0
  THEN LET w == wf[FirstBadWorkflow(wf, cnt)]
       IN  IF cnt[w] <= 0 THEN {ValidateRaised("positive", w)}
           ELSE {ValidateRaised("unknown", w)}
  ELSE IF DependencyErrors(wf, deps) # {} THEN DependencyErrors(wf, deps)
  ELSE IF validate_full_dataset_ratios(wf, cnt) # {}
  THEN {ValidateRaised("ratio", None)}
  ELSE {Validated}

\* A bug: the dependencies are not validated.
ValidateOutcomesNoDeps(wf, cnt, deps) ==
  IF Len(wf) = 0 THEN {ValidateRaised("empty", None)}
  ELSE IF FirstBadWorkflow(wf, cnt) # 0
  THEN LET w == wf[FirstBadWorkflow(wf, cnt)]
       IN  IF cnt[w] <= 0 THEN {ValidateRaised("positive", w)}
           ELSE {ValidateRaised("unknown", w)}
  ELSE {Validated}

\* What validate() does: the checks in the order of the code, each raising
\* at its first defect; the ratio check only warns (EmittedWarnings).
ValidateOutcomes(wf, cnt, deps) ==
  IF Len(wf) = 0 THEN {ValidateRaised("empty", None)}
  ELSE IF FirstBadWorkflow(wf, cnt) # 0
  THEN LET w == wf[FirstBadWorkflow(wf, cnt)]
       IN  IF cnt[w] <= 0 THEN {ValidateRaised("positive", w)}
           ELSE {ValidateRaised("unknown", w)}
  ELSE IF DependencyErrors(wf, deps) # {} THEN DependencyErrors(wf, deps)
  ELSE {Validated}

\* The warnings validate() hands to warnings.warn(warning, UserWarning)
\* when it ends with the given outcome: the ratio check is its last
\* statement, reached only if nothing was raised before.
EmittedWarnings(outcome, wf, cnt) ==
  IF outcome = Validated THEN validate_full_dataset_ratios(wf, cnt) ELSE {}

\* A bug: any(...) in place of all(...).
ReadyWorkflowsAny(deps, remaining) ==
  {w \in remaining : \E d \in DepsOf(deps, w) : d \notin remaining}

\* A bug: the dependencies are not consulted.
ReadyWorkflowsIgnoreDeps(deps, remaining) == remaining

\* A bug: one ready workflow is placed per iteration.
ReadyWorkflowsOne(deps, remaining) ==
  LET ready == {w \in remaining : \A d \in DepsOf(deps, w) : d \notin remaining}
  IN  IF ready = {} THEN {} ELSE {CHOOSE w \in ready : TRUE}

\* The members of ready_workflows: the remaining workflows none of whose
\* dependencies remains.
ReadyWorkflows(deps, remaining) ==
  {w \in remaining : \A d \in DepsOf(deps, w) : d \notin remaining}

\* A bug: break out of the loop and return what was placed.
StuckOutcomeReturn == "returned"

\* What the loop does when no workflow is ready: raise ValueError.
StuckOutcome == "raised"

\* The call: remaining_workflows = set(self.workflows.keys()); execution_groups = []
GetExecutionOrder ==
  /\ spec_pc = "ready"
  /\ pc = "none"
  /\ order_pc = "idle"
  /\ order_pc' = "loop"
  /\ remaining_workflows' = Range(workflows)
  /\ execution_groups' = <<>>
  /\ UNCHANGED <<raised_remaining, specVars, callVars, orchVars, entityVars>>

\* One iteration of the while loop that finds ready workflows.
OrderIteration ==
  /\ order_pc = "loop"
  /\ remaining_workflows # {}
  /\ LET ready == ReadyWorkflows(dependencies, remaining_workflows)
     IN  /\ ready # {}
         /\ \E ready_workflows \in Perms(ready) :
              execution_groups' = Append(execution_groups, ready_workflows)
         /\ remaining_workflows' = remaining_workflows \ ready
  /\ UNCHANGED <<order_pc, raised_remaining, specVars, callVars, orchVars,
                 entityVars>>

\* One iteration of the while loop that finds no ready workflow.
OrderStuck ==
  /\ order_pc = "loop"
  /\ remaining_workflows # {}
  /\ ReadyWorkflows(dependencies, remaining_workflows) = {}
  /\ order_pc' = StuckOutcome
  /\ raised_remaining' =
       IF StuckOutcome = "raised" THEN remaining_workflows ELSE raised_remaining
  /\ UNCHANGED <<remaining_workflows, execution_groups, specVars, callVars,
                 orchVars,
                 entityVars>>

\* The loop condition fails: return execution_groups.
OrderReturn ==
  /\ order_pc = "loop"
  /\ remaining_workflows = {}
  /\ order_pc' = "returned"
  /\ UNCHANGED <<remaining_workflows, execution_groups, raised_remaining,
                 specVars, callVars, orchVars, entityVars>>

\* get_execution_order() as a function: the lists it can return for a
\* specification, or {} when it raises.
RECURSIVE ExecutionOrders(_, _, _)
ExecutionOrders(deps, remaining, groups) ==
  IF remaining = {} THEN {groups}
  ELSE LET ready == ReadyWorkflows(deps, remaining)
       IN  IF ready = {} THEN {}
           ELSE UNION {ExecutionOrders(deps, remaining \ ready, Append(groups, g))
                         : g \in Perms(ready)}

-----------------------------------------------------------------------------
(* Idle values of the components a specification does not run *)

OrchIdle ==
  /\ workflow_steps = <<>>
  /\ overall_status = "pending"
  /\ start_time = None
  /\ end_time = None
  /\ max_parallel_workflows = 0
  /\ use_parallel = FALSE
  /\ pc = "none"
  /\ group_idx = 0
  /\ seq_idx = 0
  /\ queue = <<>>
  /\ max_workers = 0
  /\ futures_done = <<>>
  /\ collected = {}

EntityIdle ==
  /\ config = None
  /\ generator_exact = TRUE
  /\ target_records = 0
  /\ total_generated = 0
  /\ batch_count = 0
  /\ batch_data = None
  /\ batch_defect = "none"
  /\ conn = "none"
  /\ table = None
  /\ prior_rows = 0
  /\ write_log = <<>>
  /\ exc = None
  /\ result = None
  /\ epc = "none"

-----------------------------------------------------------------------------
(* SpecOrder: get_execution_order() on every DatasetSpec a caller can build *)

InitOrder ==
  /\ \E wf \in WorkflowsArgs, deps \in DependenciesArgs :
       /\ workflows = wf
       /\ counts = [w \in Range(wf) |-> 1]
       /\ dependencies = PostInitDependencies(wf, deps)
  /\ validate_result = NotValidated
  /\ summary_calls = 0
  /\ ratio_warnings = {}
  /\ raised_names = {}
  /\ SpecBuilt
  /\ order_pc = "idle"
  /\ remaining_workflows = {}
  /\ execution_groups = <<>>
  /\ raised_remaining = {}
  /\ OrchIdle
  /\ EntityIdle

NextOrder == GetExecutionOrder \/ OrderIteration \/ OrderStuck \/ OrderReturn

SpecOrder == InitOrder /\ [][NextOrder]_vars

-----------------------------------------------------------------------------
(* WorkflowResult and WorkflowStep *)

\* time.time(): only whether a time was recorded is kept.
Timestamp == "time"

\* str(e) of the exceptions a workflow can raise; the empty string is the
\* str() of an exception built without a message.
ErrorStrings == {"", "error"}

\* WorkflowResult(status=COMPLETED, records_generated=n); records_stored and
\* execution_time are not read by the orchestrator and are left out.
CompletedResult(n) ==
  [status |-> "completed", records_generated |-> n, error_message |-> None]

\* WorkflowResult(status=FAILED, error_message=msg)
FailedResult(msg) ==
  [status |-> "failed", records_generated |-> 0, error_message |-> msg]

\* WorkflowResult.success
Success(res) == res.status = "completed"

\* WorkflowStep.result = None, as a record of the shape of a WorkflowResult
\* so that it can be told from one.
NoResult == [status |-> "none", records_generated |-> 0, error_message |-> None]

\* The results workflow.execute(target_records) returns to the orchestrator:
\* COMPLETED with the records generated, or FAILED with str(e).
WorkflowExecuteResults(target) ==
  {CompletedResult(target)} \cup {FailedResult(m) : m \in ErrorStrings}

\* UnifiedWorkflowRegistry.create_workflow finds a workflow for the name.
CanCreateWorkflow(name) == name \in {"people", "companies", "dataset"}

\* What happens between mark_running and the return of
\* _execute_workflow_step: an exception (from create_workflow: an unknown
\* name, a configuration or generator error), or a WorkflowResult.
StepOutcomes(step) ==
  {[kind |-> "exception", result |-> FailedResult("error")]}
  \cup (IF CanCreateWorkflow(step.workflow_name)
        THEN {[kind |-> "returned", result |-> r] :
                r \in WorkflowExecuteResults(step.target_records)}
        ELSE {})

BuildWorkflowSteps(wf, cnt, deps) ==
  [w \in Range(wf) |->
     [workflow_name    |-> w,
      target_records   |-> cnt[w],
      depends_on       |-> DepsOf(deps, w),
      config_overrides |-> [write_mode |-> IF w = wf[1] THEN "truncate" ELSE "append"],
      result           |-> NoResult,
      start_time       |-> None,
      end_time         |-> None,
      status           |-> "pending",
      error_message    |-> None]]

\* A bug: the step is marked with mark_ready in place of mark_running.
MarkRunningAsReady(step) ==
  [step EXCEPT !.status = "ready", !.start_time = Timestamp]

MarkRunning(step) ==
  [step EXCEPT !.status = "running", !.start_time = Timestamp]

\* A bug: the result is not kept on the step.
MarkCompletedNoResult(step, res) ==
  [step EXCEPT !.status = "completed", !.end_time = Timestamp]

MarkCompleted(step, res) ==
  [step EXCEPT !.status = "completed", !.result = res, !.end_time = Timestamp]

\* A bug: the message is not recorded.
MarkFailedNoMessage(step, msg) ==
  [step EXCEPT !.status = "failed", !.end_time = Timestamp]

MarkFailed(step, msg) ==
  [step EXCEPT !.status = "failed", !.error_message = msg, !.end_time = Timestamp]

\* A bug: the overrides are not applied to the step's config.
StepConfigNoOverrides(base_config, step) == base_config

\* step_config: a new WorkflowConfig with the fields of base_config, then
\* setattr for every config override of the step.
StepConfig(base_config, step) ==
  [batch_size  |-> base_config.batch_size,
   max_records |-> base_config.max_records,
   write_mode  |-> step.config_overrides.write_mode]

\* The marks _execute_workflow_step leaves on the step for an outcome.
FinishStep(step, outcome) ==
  IF outcome.kind = "returned"
  THEN IF Success(outcome.result)
       THEN MarkCompleted(step, outcome.result)
       ELSE MarkFailed(step,
                       IF outcome.result.error_message \in {None, ""}
                       THEN "Unknown error"
                       ELSE outcome.result.error_message)
  ELSE MarkFailed(step, outcome.result.error_message)

-----------------------------------------------------------------------------
(* DatasetOrchestrator.execute *)

CurrentGroup == execution_groups[group_idx]

Running == {n \in DOMAIN workflow_steps : workflow_steps[n].status = "running"}

\* execute(use_parallel): start_time, overall_status = RUNNING, enter the loop.
ExecuteWith(up) ==
  /\ pc = "constructed"
  /\ use_parallel' = up
  /\ start_time' = Timestamp
  /\ overall_status' = "running"
  /\ group_idx' = 1
  /\ pc' = "for_groups"
  /\ UNCHANGED <<workflow_steps, end_time, max_parallel_workflows, seq_idx,
                 queue, max_workers, futures_done, collected,
                 specVars, callVars, orderVars, entityVars>>

\* execute() called by a client, with either value of use_parallel.
Execute == \E up \in BOOLEAN : ExecuteWith(up)

\* The for loop over execution_groups is exhausted.
AllGroupsDone ==
  /\ pc = "for_groups"
  /\ group_idx > Len(execution_groups)
  /\ overall_status' = "completed"
  /\ pc' = "finally"
  /\ UNCHANGED <<workflow_steps, start_time, end_time, max_parallel_workflows,
                 use_parallel, group_idx, seq_idx, queue, max_workers,
                 futures_done, collected, specVars, callVars, orderVars,
                 entityVars>>

\* A bug: the group is submitted and the thread does not wait for it.
ExecuteGroupParallelNoWait ==
  /\ pc = "for_groups"
  /\ group_idx <= Len(execution_groups)
  /\ use_parallel /\ Len(CurrentGroup) > 1
  /\ max_workers' = Min(Len(CurrentGroup), max_parallel_workflows)
  /\ queue' = queue \o CurrentGroup
  /\ pc' = "check_failures"
  /\ UNCHANGED <<workflow_steps, overall_status, start_time, end_time,
                 max_parallel_workflows, use_parallel, group_idx, seq_idx,
                 futures_done, collected, specVars, callVars, orderVars,
                 entityVars>>

\* _execute_group_parallel: a pool of min(len(group), max_parallel_workflows)
\* workers, every member submitted in the group's order.
ExecuteGroupParallel ==
  /\ pc = "for_groups"
  /\ group_idx <= Len(execution_groups)
  /\ use_parallel /\ Len(CurrentGroup) > 1
  /\ max_workers' = Min(Len(CurrentGroup), max_parallel_workflows)
  /\ queue' = CurrentGroup
  /\ futures_done' = <<>>
  /\ collected' = {}
  /\ pc' = "as_completed"
  /\ UNCHANGED <<workflow_steps, overall_status, start_time, end_time,
                 max_parallel_workflows, use_parallel, group_idx, seq_idx,
                 specVars, callVars, orderVars, entityVars>>

\* A bug: the work item is left in the queue for the next idle worker.
WorkerStartKeepsItem ==
  /\ queue # <<>>
  /\ Cardinality(Running) < max_workers
  /\ workflow_steps' =
       [workflow_steps EXCEPT ![Head(queue)] = MarkRunning(workflow_steps[Head(queue)])]
  /\ UNCHANGED <<overall_status, start_time, end_time, max_parallel_workflows,
                 use_parallel, pc, group_idx, seq_idx, queue, max_workers,
                 futures_done, collected, specVars, callVars, orderVars,
                 entityVars>>

\* A bug: a pool thread ends after its first work item, so at most
\* max_workers items of a group are ever started.
WorkerStartNoReuse ==
  /\ queue # <<>>
  /\ Cardinality({n \in Range(CurrentGroup) :
                    workflow_steps[n].status # "pending"}) < max_workers
  /\ workflow_steps' =
       [workflow_steps EXCEPT ![Head(queue)] = MarkRunning(workflow_steps[Head(queue)])]
  /\ queue' = Tail(queue)
  /\ UNCHANGED <<overall_status, start_time, end_time, max_parallel_workflows,
                 use_parallel, pc, group_idx, seq_idx, max_workers,
                 futures_done, collected, specVars, callVars, orderVars,
                 entityVars>>

\* A bug: a thread per work item, whatever max_workers says.
WorkerStartUnbounded ==
  /\ queue # <<>>
  /\ workflow_steps' =
       [workflow_steps EXCEPT ![Head(queue)] = MarkRunning(workflow_steps[Head(queue)])]
  /\ queue' = Tail(queue)
  /\ UNCHANGED <<overall_status, start_time, end_time, max_parallel_workflows,
                 use_parallel, pc, group_idx, seq_idx, max_workers,
                 futures_done, collected, specVars, callVars, orderVars,
                 entityVars>>

\* A pool worker takes the next work item: _execute_workflow_step marks the
\* step running.
WorkerStart ==
  /\ queue # <<>>
  /\ Cardinality(Running) < max_workers
  /\ workflow_steps' =
       [workflow_steps EXCEPT ![Head(queue)] = MarkRunning(workflow_steps[Head(queue)])]
  /\ queue' = Tail(queue)
  /\ UNCHANGED <<overall_status, start_time, end_time, max_parallel_workflows,
                 use_parallel, pc, group_idx, seq_idx, max_workers,
                 futures_done, collected, specVars, callVars, orderVars,
                 entityVars>>

\* A pool worker's _execute_workflow_step returns: the step is marked and
\* the future holds the result.
WorkerFinish ==
  \E n \in Running :
    /\ ~(pc = "seq_running" /\ n = CurrentGroup[seq_idx])
    /\ \E outcome \in StepOutcomes(workflow_steps[n]) :
         /\ workflow_steps' =
              [workflow_steps EXCEPT ![n] = FinishStep(workflow_steps[n], outcome)]
         /\ futures_done' =
              [m \in DOMAIN futures_done \cup {n} |->
                 IF m = n THEN outcome.result ELSE futures_done[m]]
    /\ UNCHANGED <<overall_status, start_time, end_time, max_parallel_workflows,
                   use_parallel, pc, group_idx, seq_idx, queue, max_workers,
                   collected, specVars, callVars, orderVars, entityVars>>

\* as_completed yields a finished future: a success is counted, a failure is
\* raised out of the with block.
AsCompleted ==
  /\ pc = "as_completed"
  /\ \E n \in DOMAIN futures_done \ collected :
       IF Success(futures_done[n])
       THEN /\ collected' = collected \cup {n}
            /\ pc' = IF collected' = Range(CurrentGroup)
                     THEN "pool_exit" ELSE "as_completed"
            /\ UNCHANGED raised_names
       ELSE /\ pc' = "pool_raise"
            /\ raised_names' = {n}
            /\ UNCHANGED collected
  /\ UNCHANGED <<workflow_steps, overall_status, start_time, end_time,
                 max_parallel_workflows, use_parallel, group_idx, seq_idx,
                 queue, max_workers, futures_done, specVars, validate_result,
                 summary_calls, ratio_warnings, orderVars, entityVars>>

\* Leaving the with block: executor.shutdown(wait=True) returns once every
\* work item submitted has run; then the group's count is returned, or the
\* exception goes on to execute().
PoolExit ==
  /\ pc \in {"pool_exit", "pool_raise"}
  /\ Range(CurrentGroup) \subseteq DOMAIN futures_done
  /\ pc' = IF pc = "pool_exit" THEN "check_failures" ELSE "except"
  /\ UNCHANGED <<workflow_steps, overall_status, start_time, end_time,
                 max_parallel_workflows, use_parallel, group_idx, seq_idx,
                 queue, max_workers, futures_done, collected,
                 specVars, callVars, orderVars, entityVars>>

\* _execute_group_sequential is entered.
ExecuteGroupSequential ==
  /\ pc = "for_groups"
  /\ group_idx <= Len(execution_groups)
  /\ ~(use_parallel /\ Len(CurrentGroup) > 1)
  /\ seq_idx' = 1
  /\ pc' = "sequential"
  /\ UNCHANGED <<workflow_steps, overall_status, start_time, end_time,
                 max_parallel_workflows, use_parallel, group_idx, queue,
                 max_workers, futures_done, collected,
                 specVars, callVars, orderVars, entityVars>>

\* The next member of the group: _execute_workflow_step marks it running.
SeqStepStart ==
  /\ pc = "sequential"
  /\ seq_idx <= Len(CurrentGroup)
  /\ workflow_steps' =
       [workflow_steps EXCEPT ![CurrentGroup[seq_idx]] =
          MarkRunning(workflow_steps[CurrentGroup[seq_idx]])]
  /\ pc' = "seq_running"
  /\ UNCHANGED <<overall_status, start_time, end_time, max_parallel_workflows,
                 use_parallel, group_idx, seq_idx, queue, max_workers,
                 futures_done, collected, specVars, callVars, orderVars,
                 entityVars>>

\* _execute_workflow_step returns to _execute_group_sequential: a success
\* goes on with the next member, a failure raises.
SeqStepFinish ==
  /\ pc = "seq_running"
  /\ \E outcome \in StepOutcomes(workflow_steps[CurrentGroup[seq_idx]]) :
       /\ workflow_steps' =
            [workflow_steps EXCEPT ![CurrentGroup[seq_idx]] =
               FinishStep(workflow_steps[CurrentGroup[seq_idx]], outcome)]
       /\ IF Success(outcome.result)
          THEN pc' = "sequential" /\ seq_idx' = seq_idx + 1
               /\ UNCHANGED raised_names
          ELSE pc' = "except" /\ UNCHANGED seq_idx
               /\ raised_names' = {CurrentGroup[seq_idx]}
  /\ UNCHANGED <<overall_status, start_time, end_time, max_parallel_workflows,
                 use_parallel, group_idx, queue, max_workers, futures_done,
                 collected, specVars, validate_result, summary_calls,
                 ratio_warnings, orderVars, entityVars>>

\* _execute_group_sequential returns its count.
SeqGroupDone ==
  /\ pc = "sequential"
  /\ seq_idx > Len(CurrentGroup)
  /\ pc' = "check_failures"
  /\ UNCHANGED <<workflow_steps, overall_status, start_time, end_time,
                 max_parallel_workflows, use_parallel, group_idx, seq_idx,
                 queue, max_workers, futures_done, collected,
                 specVars, callVars, orderVars, entityVars>>

\* group_failures: the members of the group whose step is FAILED.
GroupFailures(group) ==
  {n \in Range(group) : workflow_steps[n].status = "failed"}

\* The check after the group: raise if a member failed, else the next group.
CheckGroupFailures ==
  /\ pc = "check_failures"
  /\ IF GroupFailures(CurrentGroup) # {}
     THEN /\ pc' = "except"
          /\ raised_names' = GroupFailures(CurrentGroup)
          /\ UNCHANGED group_idx
     ELSE /\ pc' = "for_groups"
          /\ group_idx' = group_idx + 1
          /\ UNCHANGED raised_names
  /\ UNCHANGED <<workflow_steps, overall_status, start_time, end_time,
                 max_parallel_workflows, use_parallel, seq_idx, queue,
                 max_workers, futures_done, collected, specVars,
                 validate_result, summary_calls, ratio_warnings, orderVars,
                 entityVars>>

\* A bug: the exception is logged inside the loop and the next group runs.
ExecuteExceptContinue ==
  /\ pc = "except"
  /\ overall_status' = "failed"
  /\ pc' = "for_groups"
  /\ group_idx' = group_idx + 1
  /\ UNCHANGED <<workflow_steps, start_time, end_time, max_parallel_workflows,
                 use_parallel, seq_idx, queue, max_workers, futures_done,
                 collected, specVars, callVars, orderVars, entityVars>>

\* A bug: the handler logs and does not set the status.
ExecuteExceptNoStatus ==
  /\ pc = "except"
  /\ pc' = "finally"
  /\ UNCHANGED <<workflow_steps, overall_status, start_time, end_time,
                 max_parallel_workflows, use_parallel, group_idx, seq_idx,
                 queue, max_workers, futures_done, collected,
                 specVars, callVars, orderVars, entityVars>>

\* except Exception: overall_status = FAILED.
ExecuteExcept ==
  /\ pc = "except"
  /\ overall_status' = "failed"
  /\ pc' = "finally"
  /\ UNCHANGED <<workflow_steps, start_time, end_time, max_parallel_workflows,
                 use_parallel, group_idx, seq_idx, queue, max_workers,
                 futures_done, collected, specVars, callVars, orderVars,
                 entityVars>>

\* finally: end_time; then execute() returns the summary.
ExecuteFinally ==
  /\ pc = "finally"
  /\ end_time' = Timestamp
  /\ pc' = "returned"
  /\ UNCHANGED <<workflow_steps, overall_status, start_time,
                 max_parallel_workflows, use_parallel, group_idx, seq_idx,
                 queue, max_workers, futures_done, collected,
                 specVars, callVars, orderVars, entityVars>>

-----------------------------------------------------------------------------
(* SpecOrch: execute() of every DatasetOrchestrator that can be constructed *)

CountValues == 0..MaxCount

\* The workflows dicts that give every workflow the same count.
UniformCounts(wf) == {[w \in Range(wf) |-> c] : c \in CountValues}

\* The workflows dict that counts 1, 2, 3 ... along the insertion order.
PositionCounts(wf) ==
  [w \in Range(wf) |-> CHOOSE i \in 1..Len(wf) : wf[i] = w]

\* The counts the orchestrator is run with: all equal, or all different.
OrchCounts(wf) == UniformCounts(wf) \cup {PositionCounts(wf)}

\* The state after DatasetOrchestrator.__init__: the spec passed validate(),
\* the steps are built and execution_groups is what get_execution_order()
\* returned.
InitOrch ==
  /\ \E wf \in WorkflowsArgs, deps \in DependenciesArgs :
       \E cnt \in OrchCounts(wf) :
         /\ ValidateOK(wf, cnt, PostInitDependencies(wf, deps))
         /\ workflows = wf
         /\ counts = cnt
         /\ dependencies = PostInitDependencies(wf, deps)
         /\ execution_groups \in ExecutionOrders(dependencies, Range(wf), <<>>)
         /\ workflow_steps = BuildWorkflowSteps(wf, cnt, dependencies)
  /\ validate_result = Validated
  /\ summary_calls = 0
  /\ ratio_warnings = validate_full_dataset_ratios(workflows, counts)
  /\ raised_names = {}
  /\ SpecBuilt
  /\ order_pc = "returned"
  /\ remaining_workflows = {}
  /\ raised_remaining = {}
  /\ max_parallel_workflows \in 1..MaxParallel
  /\ overall_status = "pending"
  /\ start_time = None
  /\ end_time = None
  /\ use_parallel = FALSE
  /\ pc = "constructed"
  /\ group_idx = 0
  /\ seq_idx = 0
  /\ queue = <<>>
  /\ max_workers = 0
  /\ futures_done = <<>>
  /\ collected = {}
  /\ EntityIdle

NextOrch ==
  \/ Execute
  \/ AllGroupsDone
  \/ ExecuteGroupParallel
  \/ WorkerStart
  \/ WorkerFinish
  \/ AsCompleted
  \/ PoolExit
  \/ ExecuteGroupSequential
  \/ SeqStepStart
  \/ SeqStepFinish
  \/ SeqGroupDone
  \/ CheckGroupFailures
  \/ ExecuteExcept
  \/ ExecuteFinally

SpecOrch == InitOrch /\ [][NextOrch]_vars

\* The steps of the thread that called execute(), from the for loop to the
\* return.
MainThread ==
  \/ AllGroupsDone
  \/ ExecuteGroupParallel
  \/ AsCompleted
  \/ PoolExit
  \/ ExecuteGroupSequential
  \/ SeqStepStart
  \/ SeqStepFinish
  \/ SeqGroupDone
  \/ CheckGroupFailures
  \/ ExecuteExcept
  \/ ExecuteFinally

\* The steps of the threads of the ThreadPoolExecutor.
PoolWorkers == WorkerStart \/ WorkerFinish

\* The same runs where every thread that can take a step does so in the end
\* and every step's workflow execution returns or raises. Whether a client
\* calls execute() at all is left open.
SpecOrchLive ==
  /\ SpecOrch
  /\ WF_<<pc, collected>>(MainThread)
  /\ WF_workflow_steps(PoolWorkers)

-----------------------------------------------------------------------------
(* BaseWorkflow.execute of an EntityWorkflow; a batch is its record count *)

\* A bug: the whole remainder is asked for in one batch.
BatchSizeRemainder == target_records - total_generated

\* batch_size = min(self.config.batch_size, target_records - total_generated)
\* A bug: the last batch is not cut to what is still missing.
BatchSizeNoMin == config.batch_size

BatchSize == Min(config.batch_size, target_records - total_generated)

\* How many records generator.generate_batch_dicts(k) returns: exactly k for
\* a Generator that keeps BaseGenerator.generate_batch, anything for one
\* that overrides it.
GeneratedCounts(k) == IF generator_exact THEN {k} ELSE 0..(k + 1)

\* A bug: every batch is written with the configured mode.
WriteModeAlways(is_first_batch) == config.write_mode

\* write_mode = self.config.write_mode if is_first_batch else "append"
WriteMode(is_first_batch) ==
  IF is_first_batch THEN config.write_mode ELSE "append"

\* operate_on_table(action="write", how): truncate drops the table and
\* creates it again, append creates it when it is missing; then the rows
\* are inserted.
WriteTable(t, n, how) ==
  IF how = "truncate" \/ ~t.exists
  THEN [exists |-> TRUE, rows |-> n]
  ELSE [exists |-> TRUE, rows |-> t.rows + n]

\* The table an operate_on_table write leaves behind when one of its
\* statements raises: before any statement, after the DROP, after the CREATE.
WriteTableFailures(t, how) ==
  {t}
  \cup (IF how = "truncate" THEN {[exists |-> FALSE, rows |-> 0]} ELSE {})
  \cup (IF how = "truncate" \/ ~t.exists THEN {[exists |-> TRUE, rows |-> 0]} ELSE {})

\* get_current_status()["row_count"]: the count, 0 for a missing table and
\* 0 when get_table_info catches an error.
RowCounts(t) == {IF t.exists THEN t.rows ELSE 0, 0}

\* execute(target_records): result = WorkflowResult(PENDING), then RUNNING.
EntityExecute ==
  /\ epc = "constructed"
  /\ result' = [status |-> "running", records_generated |-> 0,
                records_stored |-> 0, error_message |-> None]
  /\ epc' = "setup"
  /\ UNCHANGED <<config, generator_exact, target_records, total_generated,
                 batch_count, batch_data, batch_defect, conn, table,
                 prior_rows, write_log,
                 exc, specVars, callVars, orderVars, orchVars>>

\* setup_database() connects; the loop counters start at 0.
SetupDatabase ==
  /\ epc = "setup"
  /\ conn' = "open"
  /\ total_generated' = 0
  /\ batch_count' = 0
  /\ epc' = "loop"
  /\ UNCHANGED <<config, generator_exact, target_records, batch_data,
                 batch_defect, table,
                 prior_rows, write_log, exc, result, specVars, callVars,
                 orderVars,
                 orchVars>>

\* setup_database() raises: connect_to_duckdb failed.
SetupDatabaseRaises ==
  /\ epc = "setup"
  /\ exc' = "error"
  /\ epc' = "except"
  /\ UNCHANGED <<config, generator_exact, target_records, total_generated,
                 batch_count, batch_data, batch_defect, conn, table,
                 prior_rows, write_log,
                 result, specVars, callVars, orderVars, orchVars>>

\* What can be wrong with the n records generate_batch_dicts returned: there
\* is none; a record lacks a required field, holds None for one, breaks a
\* business rule or makes the validation raise; two records share their id
\* or differ in their field sets.
BatchDefects(n) ==
  IF n = 0 THEN {"empty"}
  ELSE {"none", "missing_field", "null_field", "business_rule", "validation_error"}
         \cup (IF n >= 2 THEN {"duplicate_id", "inconsistent_fields"} ELSE {})

\* _validate_record: a required field is absent or None, else
\* _validate_record_business_rules.
ValidateRecord(defect) ==
  defect \notin {"missing_field", "null_field", "business_rule"}

\* _validate_batch_consistency: duplicate ids, then the field sets.
ValidateBatchConsistency(defect) ==
  defect \notin {"duplicate_id", "inconsistent_fields"}

\* A bug: the batch-level validations are skipped.
ValidateBatchRecordsOnly(n, defect) ==
  IF n = 0 THEN FALSE
  ELSE IF defect = "validation_error" THEN FALSE
  ELSE ValidateRecord(defect)

\* A bug: an empty batch passes the validation.
ValidateBatchAcceptsEmpty(n, defect) ==
  IF n = 0 THEN TRUE
  ELSE IF defect = "validation_error" THEN FALSE
  ELSE ValidateRecord(defect) /\ ValidateBatchConsistency(defect)

\* _validate_batch: False for an empty batch, for a record that fails, for
\* an exception inside the validation; else the batch-level validations.
ValidateBatch(n, defect) ==
  IF n = 0 THEN FALSE
  ELSE IF defect = "validation_error" THEN FALSE
  ELSE ValidateRecord(defect) /\ ValidateBatchConsistency(defect)

\* One turn of the while loop up to generate_batch returning a batch that
\* passed _validate_batch.
GenerateBatch ==
  /\ epc = "loop"
  /\ total_generated < target_records
  /\ \E n \in GeneratedCounts(BatchSize) :
       \E d \in BatchDefects(n) :
         /\ ValidateBatch(n, d)
         /\ batch_data' = n
         /\ batch_defect' = d
  /\ epc' = "store"
  /\ UNCHANGED <<config, generator_exact, target_records, total_generated,
                 batch_count, conn, table, prior_rows, write_log, exc, result,
                 specVars, callVars, orderVars, orchVars>>

\* generate_batch raises RuntimeError: the batch failed _validate_batch.
GenerateBatchInvalid ==
  /\ epc = "loop"
  /\ total_generated < target_records
  /\ \E n \in GeneratedCounts(BatchSize) :
       \E d \in BatchDefects(n) :
         /\ ~ValidateBatch(n, d)
         /\ batch_data' = n
         /\ batch_defect' = d
  /\ exc' = "error"
  /\ epc' = "except"
  /\ UNCHANGED <<config, generator_exact, target_records, total_generated,
                 batch_count, conn, table, prior_rows, write_log, result,
                 specVars, callVars, orderVars, orchVars>>

\* generate_batch raises: generator.generate_batch_dicts raised.
GenerateBatchRaises ==
  /\ epc = "loop"
  /\ total_generated < target_records
  /\ exc' = "error"
  /\ epc' = "except"
  /\ UNCHANGED <<config, generator_exact, target_records, total_generated,
                 batch_count, batch_data, batch_defect, conn, table,
                 prior_rows, write_log, result, specVars, callVars,
                 orderVars, orchVars>>

\* execute_batch(batch_data, is_first_batch=(batch_count == 0)) stores the
\* batch; then total_generated += len(batch_data) and batch_count += 1.
ExecuteBatch ==
  /\ epc = "store"
  /\ table' = WriteTable(table, batch_data, WriteMode(batch_count = 0))
  /\ write_log' = Append(write_log,
                         [how |-> WriteMode(batch_count = 0),
                          rows |-> batch_data])
  /\ total_generated' = total_generated + batch_data
  /\ batch_count' = batch_count + 1
  /\ epc' = "loop"
  /\ UNCHANGED <<config, generator_exact, target_records, batch_data,
                 batch_defect, conn,
                 prior_rows, exc, result, specVars, callVars, orderVars,
                 orchVars>>

\* execute_batch raises from operate_on_table.
ExecuteBatchRaises ==
  /\ epc = "store"
  /\ table' \in WriteTableFailures(table, WriteMode(batch_count = 0))
  /\ exc' = "error"
  /\ epc' = "except"
  /\ UNCHANGED <<config, generator_exact, target_records, total_generated,
                 batch_count, batch_data, batch_defect, conn, prior_rows,
                 write_log, result,
                 specVars, callVars, orderVars, orchVars>>

\* The loop is over: COMPLETED, records_generated = total_generated,
\* records_stored = the table's row count.
EntityCompleted ==
  /\ epc = "loop"
  /\ ~(total_generated < target_records)
  /\ \E stored \in RowCounts(table) :
       result' = [result EXCEPT !.status = "completed",
                                !.records_generated = total_generated,
                                !.records_stored = stored]
  /\ epc' = "finally"
  /\ UNCHANGED <<config, generator_exact, target_records, total_generated,
                 batch_count, batch_data, batch_defect, conn, table,
                 prior_rows, write_log,
                 exc, specVars, callVars, orderVars, orchVars>>

\* A bug: the handler records the message and leaves the status.
EntityExceptNoStatus ==
  /\ epc = "except"
  /\ result' = [result EXCEPT !.error_message = exc]
  /\ epc' = "finally"
  /\ UNCHANGED <<config, generator_exact, target_records, total_generated,
                 batch_count, batch_data, batch_defect, conn, table,
                 prior_rows, write_log,
                 exc, specVars, callVars, orderVars, orchVars>>

\* except Exception as e: FAILED with str(e); nothing else is written.
EntityExcept ==
  /\ epc = "except"
  /\ result' = [result EXCEPT !.status = "failed", !.error_message = exc]
  /\ epc' = "finally"
  /\ UNCHANGED <<config, generator_exact, target_records, total_generated,
                 batch_count, batch_data, batch_defect, conn, table,
                 prior_rows, write_log,
                 exc, specVars, callVars, orderVars, orchVars>>

\* A bug: execute returns without closing the connection.
EntityFinallyNoClose ==
  /\ epc = "finally"
  /\ epc' = "returned"
  /\ UNCHANGED <<config, generator_exact, target_records, total_generated,
                 batch_count, batch_data, batch_defect, conn, table,
                 prior_rows, write_log,
                 exc, result, specVars, callVars, orderVars, orchVars>>

\* finally: the connection is closed if there is one; execute returns.
EntityFinally ==
  /\ epc = "finally"
  /\ conn' = IF conn = "open" THEN "closed" ELSE conn
  /\ epc' = "returned"
  /\ UNCHANGED <<config, generator_exact, target_records, total_generated,
                 batch_count, batch_data, batch_defect, table, prior_rows,
                 write_log, exc,
                 result, specVars, callVars, orderVars, orchVars>>

-----------------------------------------------------------------------------
(* SpecEntity: one execute(target_records) of one EntityWorkflow *)

\* The configurations WorkflowConfig.validate() accepts.
WorkflowConfigs ==
  [batch_size : 1..MaxBatch, max_records : 1..MaxTarget,
   write_mode : {"append", "truncate"}]

\* The target table before the call: missing, or holding some rows.
TablesBefore ==
  {[exists |-> FALSE, rows |-> 0]}
  \cup {[exists |-> TRUE, rows |-> r] : r \in 0..MaxPrior}

InitEntity ==
  /\ workflows = <<>>
  /\ counts = <<>>
  /\ dependencies = <<>>
  /\ validate_result = NotValidated
  /\ summary_calls = 0
  /\ ratio_warnings = {}
  /\ raised_names = {}
  /\ SpecBuilt
  /\ order_pc = "idle"
  /\ remaining_workflows = {}
  /\ execution_groups = <<>>
  /\ raised_remaining = {}
  /\ OrchIdle
  /\ config \in WorkflowConfigs
  /\ generator_exact \in BOOLEAN
  /\ target_records \in 0..MaxTarget
  /\ total_generated = 0
  /\ batch_count = 0
  /\ batch_data = 0
  /\ batch_defect = "none"
  /\ conn = "none"
  /\ table \in TablesBefore
  /\ prior_rows = table.rows
  /\ write_log = <<>>
  /\ exc = None
  /\ result = None
  /\ epc = "constructed"

NextEntity ==
  \/ EntityExecute
  \/ SetupDatabase
  \/ SetupDatabaseRaises
  \/ GenerateBatch
  \/ GenerateBatchInvalid
  \/ GenerateBatchRaises
  \/ ExecuteBatch
  \/ ExecuteBatchRaises
  \/ EntityCompleted
  \/ EntityExcept
  \/ EntityFinally

SpecEntity == InitEntity /\ [][NextEntity]_vars

\* The same call where every Generator and Store call returns or raises and
\* the interpreter goes on to the next statement: execute is single-threaded,
\* so some step of it is taken whenever one is possible. Every step moves
\* the position epc.
SpecEntityLive == SpecEntity /\ WF_epc(NextEntity)

-----------------------------------------------------------------------------
(* SpecConstruct: a DatasetSpec is built from its arguments, validated, and
   given to the DatasetOrchestrator constructor *)

SpecWorkflowsArgs == {wf \in WorkflowsArgs : Len(wf) <= MaxSpecWorkflows}

SpecDependenciesArgs == {d \in DependenciesArgs : DepSize(d) <= MaxSpecEdges}

\* dataset_spec.validate()
Validate ==
  /\ spec_pc = "ready"
  /\ pc = "none"
  /\ validate_result = NotValidated
  /\ validate_result' \in ValidateOutcomes(workflows, counts, dependencies)
  /\ ratio_warnings' = EmittedWarnings(validate_result', workflows, counts)
  /\ UNCHANGED <<specVars, summary_calls, raised_names, orderVars, orchVars,
                 entityVars>>

\* DatasetOrchestrator(dataset_spec, ...): validate() or
\* get_execution_order() raises.
ConstructOrchestratorRaises ==
  /\ spec_pc = "ready"
  /\ order_pc # "loop"
  /\ pc = "none"
  /\ \E e \in ValidateOutcomes(workflows, counts, dependencies) :
       /\ validate_result' = e
       /\ ratio_warnings' = EmittedWarnings(e, workflows, counts)
       /\ \/ e # Validated /\ UNCHANGED workflow_steps
          \/ /\ e = Validated
             /\ ExecutionOrders(dependencies, Range(workflows), <<>>) = {}
             /\ workflow_steps' = BuildWorkflowSteps(workflows, counts, dependencies)
  /\ pc' = "init_raised"
  /\ UNCHANGED <<specVars, summary_calls, raised_names, orderVars,
                 overall_status,
                 start_time, end_time, max_parallel_workflows, use_parallel,
                 group_idx, seq_idx, queue, max_workers, futures_done,
                 collected, entityVars>>

\* DatasetOrchestrator(dataset_spec, ...) returns: the spec is valid, the
\* steps are built, the execution order is computed, the status is PENDING.
ConstructOrchestrator ==
  /\ spec_pc = "ready"
  /\ order_pc # "loop"
  /\ pc = "none"
  /\ Validated \in ValidateOutcomes(workflows, counts, dependencies)
  /\ validate_result' = Validated
  /\ ratio_warnings' = EmittedWarnings(Validated, workflows, counts)
  /\ workflow_steps' = BuildWorkflowSteps(workflows, counts, dependencies)
  /\ execution_groups' \in ExecutionOrders(dependencies, Range(workflows), <<>>)
  /\ max_parallel_workflows' \in 1..MaxParallel
  /\ overall_status' = "pending"
  /\ pc' = "constructed"
  /\ UNCHANGED <<specVars, summary_calls, raised_names, order_pc,
                 remaining_workflows, raised_remaining, start_time, end_time,
                 use_parallel, group_idx, seq_idx, queue, max_workers,
                 futures_done, collected, entityVars>>

InitConstruct ==
  /\ \E wf \in SpecWorkflowsArgs, deps \in SpecDependenciesArgs :
       \E cnt \in [Range(wf) -> CountValues] :
         /\ workflows = wf
         /\ counts = cnt
         /\ dependencies = PostInitDependencies(wf, deps)
  /\ validate_result = NotValidated
  /\ summary_calls = 0
  /\ ratio_warnings = {}
  /\ raised_names = {}
  /\ SpecBuilt
  /\ order_pc = "idle"
  /\ remaining_workflows = {}
  /\ execution_groups = <<>>
  /\ raised_remaining = {}
  /\ OrchIdle
  /\ EntityIdle

NextConstruct == Validate \/ ConstructOrchestratorRaises \/ ConstructOrchestrator

SpecConstruct == InitConstruct /\ [][NextConstruct]_vars

-----------------------------------------------------------------------------
(* SpecBuild: a client builds a DatasetSpec with DatasetSpec(...) or with
   DatasetSpec.from_template(name), then validates it, asks for its execution
   order, and constructs and runs an orchestrator for it *)

\* config.DATASET_TEMPLATES: the workflows dict of each template (keys in
\* insertion order, counts) and its dependencies.
DATASET_TEMPLATES ==
  [name \in {"small_demo", "medium_dev", "large_production"} |->
     [workflows |-> <<"companies", "people">>,
      counts |-> [w \in {"companies", "people"} |->
                    CASE name = "small_demo" ->
                           IF w = "companies" THEN 10 ELSE 50
                      [] name = "medium_dev" ->
                           IF w = "companies" THEN 50 ELSE 500
                      [] name = "large_production" ->
                           IF w = "companies" THEN 200 ELSE 5000],
      dependencies |-> [w \in {"people"} |-> {"companies"}]]]

UnknownTemplates == {"huge"}

\* A bug: people is inserted before companies.
LegacyWorkflowsPeopleFirst(people, companies) ==
  (IF people # LegacyNone THEN <<"people">> ELSE <<>>)
    \o (IF companies # LegacyNone THEN <<"companies">> ELSE <<>>)

\* The keys __post_init__ inserts for the legacy counts that are not None:
\* workflows["companies"] first, workflows["people"] second.
LegacyWorkflows(people, companies) ==
  (IF companies # LegacyNone THEN <<"companies">> ELSE <<>>)
    \o (IF people # LegacyNone THEN <<"people">> ELSE <<>>)

\* __post_init__ on the fields the generated __init__ assigned: the legacy
\* counts with a non-empty workflows dict raise ValueError; alone they are
\* converted and cleared; then the default dependencies are applied.
PostInit(args) ==
  LET legacy == args.people_count # LegacyNone \/ args.companies_count # LegacyNone
      wf == IF legacy
            THEN LegacyWorkflows(args.people_count, args.companies_count)
            ELSE args.workflows
      cnt == IF legacy
             THEN [w \in Range(wf) |-> IF w = "companies"
                                        THEN args.companies_count[1]
                                        ELSE args.people_count[1]]
             ELSE args.counts
  IN  IF legacy /\ Len(args.workflows) > 0
      THEN [raised |-> TRUE, workflows |-> args.workflows,
            counts |-> args.counts, dependencies |-> args.dependencies]
      ELSE [raised |-> FALSE, workflows |-> wf, counts |-> cnt,
            dependencies |-> PostInitDependencies(wf, args.dependencies)]

\* DatasetSpec(...): __post_init__ runs on the assigned fields.
DatasetSpecPostInit ==
  /\ spec_pc = "post_init"
  /\ LET r == PostInit(spec_args)
     IN  IF r.raised
         THEN /\ spec_pc' = "conflict"
              /\ UNCHANGED <<workflows, counts, dependencies, people_count,
                             companies_count>>
         ELSE /\ spec_pc' = "ready"
              /\ workflows' = r.workflows
              /\ counts' = r.counts
              /\ dependencies' = r.dependencies
              /\ people_count' = LegacyNone
              /\ companies_count' = LegacyNone
  /\ UNCHANGED <<spec_args, callVars, orderVars, orchVars, entityVars>>

\* A bug: a name that is not registered falls back to the first template.
FromTemplateFallback ==
  /\ spec_pc = "from_template"
  /\ LET name == IF spec_args.template_name \in DOMAIN DATASET_TEMPLATES
                 THEN spec_args.template_name ELSE "small_demo"
         template == DATASET_TEMPLATES[name]
         r == PostInit([NoArgs EXCEPT !.workflows = template.workflows,
                                      !.counts = template.counts,
                                      !.dependencies = template.dependencies])
     IN  /\ spec_pc' = "ready"
         /\ workflows' = r.workflows
         /\ counts' = r.counts
         /\ dependencies' = r.dependencies
  /\ UNCHANGED <<people_count, companies_count, spec_args, callVars,
                 orderVars, orchVars, entityVars>>

\* DatasetSpec.from_template(template_name): ValueError for a name that is
\* not in DATASET_TEMPLATES, else cls(workflows=..., dependencies=...).
FromTemplate ==
  /\ spec_pc = "from_template"
  /\ IF spec_args.template_name \notin DOMAIN DATASET_TEMPLATES
     THEN /\ spec_pc' = "unknown_template"
          /\ UNCHANGED <<workflows, counts, dependencies>>
     ELSE LET template == DATASET_TEMPLATES[spec_args.template_name]
              r == PostInit([NoArgs EXCEPT !.workflows = template.workflows,
                                           !.counts = template.counts,
                                           !.dependencies = template.dependencies])
          IN  /\ spec_pc' = "ready"
              /\ workflows' = r.workflows
              /\ counts' = r.counts
              /\ dependencies' = r.dependencies
  /\ UNCHANGED <<people_count, companies_count, spec_args, callVars,
                 orderVars, orchVars, entityVars>>

\* The legacy counts a caller passes.
LegacyArgs == {LegacyNone} \cup {LegacyInt(n) : n \in CountValues \cup {60}}

\* The calls: DatasetSpec(workflows, dependencies) without legacy counts,
\* DatasetSpec(...) with a legacy count, DatasetSpec.from_template(name).
InitCall(wf, cnt, deps, people, companies) ==
  [NoArgs EXCEPT !.method = "init", !.workflows = wf, !.counts = cnt,
                 !.dependencies = deps, !.people_count = people,
                 !.companies_count = companies]

TemplateWorkflows == {"companies", "people"}

\* The arguments of the calls: without legacy counts, the workflows and
\* dependencies among companies and people; with them, any short ones.
BuildWorkflowsArgs ==
  {wf \in SpecWorkflowsArgs : Range(wf) \subseteq TemplateWorkflows}

BuildDependenciesArgs ==
  {d \in UNION {[K -> SUBSET TemplateWorkflows] : K \in SUBSET TemplateWorkflows} :
     DepSize(d) <= MaxSpecEdges}

LegacyWorkflowsArgs == {<<>>} \cup {<<n>> : n \in Names}

LegacyDependenciesArgs ==
  UNION {[K -> {{}} \cup {{n} : n \in Names}] : K \in {{}} \cup {{n} : n \in Names}}

BuildCalls ==
  {InitCall(c[1], c[2], c[3], LegacyNone, LegacyNone) :
     c \in UNION {{<<wf, cnt, deps>> : cnt \in [Range(wf) -> CountValues],
                                       deps \in BuildDependenciesArgs} :
                    wf \in BuildWorkflowsArgs}}
  \cup {InitCall(c[1], c[2], c[3], c[4], c[5]) :
     c \in UNION {{<<wf, cnt, deps, p, q>> : cnt \in UniformCounts(wf),
                                             deps \in LegacyDependenciesArgs,
                                             p \in LegacyArgs,
                                             q \in LegacyArgs} :
                    wf \in LegacyWorkflowsArgs}}
  \cup {[NoArgs EXCEPT !.method = "from_template", !.template_name = n] :
          n \in DOMAIN DATASET_TEMPLATES \cup UnknownTemplates}

InitBuild ==
  /\ spec_args \in BuildCalls
  /\ IF spec_args.method = "init"
     THEN /\ spec_pc = "post_init"
          /\ workflows = spec_args.workflows
          /\ counts = spec_args.counts
          /\ dependencies = spec_args.dependencies
          /\ people_count = spec_args.people_count
          /\ companies_count = spec_args.companies_count
     ELSE /\ spec_pc = "from_template"
          /\ workflows = <<>>
          /\ counts = <<>>
          /\ dependencies = <<>>
          /\ people_count = LegacyNone
          /\ companies_count = LegacyNone
  /\ validate_result = NotValidated
  /\ summary_calls = 0
  /\ ratio_warnings = {}
  /\ raised_names = {}
  /\ order_pc = "idle"
  /\ remaining_workflows = {}
  /\ execution_groups = <<>>
  /\ raised_remaining = {}
  /\ OrchIdle
  /\ EntityIdle

NextBuild ==
  \/ DatasetSpecPostInit
  \/ FromTemplate
  \/ Validate
  \/ NextOrder
  \/ ConstructOrchestratorRaises
  \/ ConstructOrchestrator
  \/ NextOrch

SpecBuild == InitBuild /\ [][NextBuild]_vars

-----------------------------------------------------------------------------
(* SpecSummary: a client calls get_execution_summary() before, during and
   after execute() *)

\* A bug: the summary is computed by running the orchestrator's state on.
GetExecutionSummaryTouches ==
  /\ pc # "none"
  /\ summary_calls < MaxSummaryCalls
  /\ summary_calls' = summary_calls + 1
  /\ overall_status' = IF overall_status = "pending" THEN "running" ELSE overall_status
  /\ UNCHANGED <<validate_result, ratio_warnings, raised_names, specVars,
                 orderVars, workflow_steps,
                 start_time, end_time, max_parallel_workflows, use_parallel,
                 pc, group_idx, seq_idx, queue, max_workers, futures_done,
                 collected, entityVars>>

\* get_execution_summary() (DatasetWorkflow.get_execution_summary delegates
\* to it): the dict ExecutionSummary is computed from the fields; nothing is
\* assigned.
GetExecutionSummary ==
  /\ pc # "none"
  /\ summary_calls < MaxSummaryCalls
  /\ summary_calls' = summary_calls + 1
  /\ UNCHANGED <<validate_result, ratio_warnings, raised_names, specVars,
                 orderVars, orchVars, entityVars>>

\* The orchestrators of the smaller specs, with counts that all differ.
InitSummary ==
  /\ InitOrch
  /\ Len(workflows) <= MaxSpecWorkflows
  /\ counts = PositionCounts(workflows)

NextSummary == NextOrch \/ GetExecutionSummary

SpecSummary == InitSummary /\ [][NextSummary]_vars

-----------------------------------------------------------------------------
(* DatasetWorkflow.execute: the BaseWorkflow wrapper of the orchestrator.
   conn, table, write_log, exc and result are the wrapper's own connection,
   its dataset_metadata table and its WorkflowResult; config is the
   WorkflowConfig it shares with the orchestrator as base_config. *)

\* get_execution_summary(): the entries DatasetWorkflow.execute reads.
SummaryCompleted ==
  {n \in DOMAIN workflow_steps : workflow_steps[n].status = "completed"}

SummaryFailed ==
  {n \in DOMAIN workflow_steps : workflow_steps[n].status = "failed"}

\* total_records: records_generated summed over the steps whose result is a
\* success.
RECURSIVE SumRecords(_)
SumRecords(S) ==
  IF S = {} THEN 0
  ELSE LET n == CHOOSE x \in S : TRUE
       IN  workflow_steps[n].result.records_generated + SumRecords(S \ {n})

\* if step.result and step.result.success
SuccessfulSteps ==
  {n \in DOMAIN workflow_steps :
     workflow_steps[n].result # NoResult /\ Success(workflow_steps[n].result)}

\* A bug: the targets of all the steps are added up.
RECURSIVE SumTargets(_)
SumTargets(S) ==
  IF S = {} THEN 0
  ELSE LET n == CHOOSE x \in S : TRUE
       IN  workflow_steps[n].target_records + SumTargets(S \ {n})

TotalRecordsGeneratedAllTargets == SumTargets(DOMAIN workflow_steps)

TotalRecordsGenerated == SumRecords(SuccessfulSteps)

\* sum(self.dataset_spec.workflows.values())
RECURSIVE SumCounts(_)
SumCounts(S) ==
  IF S = {} THEN 0
  ELSE LET n == CHOOSE x \in S : TRUE IN counts[n] + SumCounts(S \ {n})

\* get_execution_summary(): the counts and statuses of the returned dict;
\* the durations are left out.
ExecutionSummary ==
  [workflows               |-> workflows,
   total_target_records    |-> SumCounts(Range(workflows)),
   overall_status          |-> overall_status,
   total_records_generated |-> TotalRecordsGenerated,
   execution_groups        |-> execution_groups,
   workflows_completed     |-> Cardinality(SummaryCompleted),
   workflows_failed        |-> Cardinality(SummaryFailed)]

\* The result built from the summary: COMPLETED, or FAILED with the message
\* "<n> workflow(s) failed during dataset generation".
DatasetResult ==
  IF overall_status = "completed"
  THEN [status |-> "completed", records_generated |-> TotalRecordsGenerated,
        records_stored |-> TotalRecordsGenerated, error_message |-> None]
  ELSE [status |-> "failed", records_generated |-> TotalRecordsGenerated,
        records_stored |-> TotalRecordsGenerated,
        error_message |-> "workflows failed"]

\* setup_database() connects for the metadata.
DatasetSetupDatabase ==
  /\ epc = "dw_constructed"
  /\ conn' = "open"
  /\ epc' = "dw_orchestrate"
  /\ UNCHANGED <<config, generator_exact, target_records, total_generated,
                 batch_count, batch_data, batch_defect, table, prior_rows,
                 write_log, exc,
                 result, specVars, callVars, orderVars, orchVars>>

\* setup_database() raises.
DatasetSetupDatabaseRaises ==
  /\ epc = "dw_constructed"
  /\ exc' = "error"
  /\ epc' = "dw_except"
  /\ UNCHANGED <<config, generator_exact, target_records, total_generated,
                 batch_count, batch_data, batch_defect, conn, table,
                 prior_rows, write_log,
                 result, specVars, callVars, orderVars, orchVars>>

\* self.orchestrator.execute(): use_parallel keeps its default.
DatasetOrchestratorExecute ==
  /\ epc = "dw_orchestrate"
  /\ ExecuteWith(TRUE)

\* The steps of orchestrator.execute() up to its return.
DatasetOrchestratorStep ==
  /\ epc = "dw_orchestrate"
  /\ \/ AllGroupsDone
     \/ ExecuteGroupParallel
     \/ WorkerStart
     \/ WorkerFinish
     \/ AsCompleted
     \/ PoolExit
     \/ ExecuteGroupSequential
     \/ SeqStepStart
     \/ SeqStepFinish
     \/ SeqGroupDone
     \/ CheckGroupFailures
     \/ ExecuteExcept
     \/ ExecuteFinally

\* The metadata record is stored with execute_batch(is_first_batch=True) and
\* the result is built from the summary.
DatasetStoreMetadata ==
  /\ epc = "dw_orchestrate"
  /\ pc = "returned"
  /\ table' = WriteTable(table, 1, WriteMode(TRUE))
  /\ write_log' = Append(write_log, [how |-> WriteMode(TRUE), rows |-> 1])
  /\ result' = DatasetResult
  /\ epc' = "dw_finally"
  /\ UNCHANGED <<config, generator_exact, target_records, total_generated,
                 batch_count, batch_data, batch_defect, conn, prior_rows, exc,
                 specVars, callVars, orderVars, orchVars>>

\* execute_batch raises on the metadata record.
DatasetStoreMetadataRaises ==
  /\ epc = "dw_orchestrate"
  /\ pc = "returned"
  /\ table' \in WriteTableFailures(table, WriteMode(TRUE))
  /\ exc' = "error"
  /\ epc' = "dw_except"
  /\ UNCHANGED <<config, generator_exact, target_records, total_generated,
                 batch_count, batch_data, batch_defect, conn, prior_rows,
                 write_log, result,
                 specVars, callVars, orderVars, orchVars>>

\* except Exception as e: a new FAILED result with str(e).
DatasetExcept ==
  /\ epc = "dw_except"
  /\ result' = [status |-> "failed", records_generated |-> 0,
                records_stored |-> 0, error_message |-> exc]
  /\ epc' = "dw_finally"
  /\ UNCHANGED <<config, generator_exact, target_records, total_generated,
                 batch_count, batch_data, batch_defect, conn, table,
                 prior_rows, write_log,
                 exc, specVars, callVars, orderVars, orchVars>>

\* finally: the metadata connection is closed if there is one.
DatasetFinally ==
  /\ epc = "dw_finally"
  /\ conn' = IF conn = "open" THEN "closed" ELSE conn
  /\ epc' = "returned"
  /\ UNCHANGED <<config, generator_exact, target_records, total_generated,
                 batch_count, batch_data, batch_defect, table, prior_rows,
                 write_log, exc,
                 result, specVars, callVars, orderVars, orchVars>>

-----------------------------------------------------------------------------
(* SpecWorkflow: one execute() of a workflow made by create_workflow, an
   EntityWorkflow or a DatasetWorkflow *)

\* The base configurations: batch_size and max_records reach only the
\* entity workflows of the steps, so one value of each is drawn.
BaseConfigs ==
  {c \in WorkflowConfigs : c.batch_size = MaxBatch /\ c.max_records = MaxTarget}

\* The dataset_metadata table before the call: missing, or holding rows.
MetadataTablesBefore ==
  {[exists |-> FALSE, rows |-> 0], [exists |-> TRUE, rows |-> MaxPrior]}

\* The state after DatasetWorkflow.__init__: BaseWorkflow.__init__ accepted
\* the config and the orchestrator was constructed for the dataset_spec.
InitDataset ==
  /\ \E wf \in SpecWorkflowsArgs, deps \in SpecDependenciesArgs :
       \E cnt \in UniformCounts(wf) :
         /\ ValidateOK(wf, cnt, PostInitDependencies(wf, deps))
         /\ workflows = wf
         /\ counts = cnt
         /\ dependencies = PostInitDependencies(wf, deps)
         /\ execution_groups \in ExecutionOrders(dependencies, Range(wf), <<>>)
         /\ workflow_steps = BuildWorkflowSteps(wf, cnt, dependencies)
  /\ validate_result = Validated
  /\ summary_calls = 0
  /\ ratio_warnings = validate_full_dataset_ratios(workflows, counts)
  /\ raised_names = {}
  /\ SpecBuilt
  /\ order_pc = "returned"
  /\ remaining_workflows = {}
  /\ raised_remaining = {}
  /\ max_parallel_workflows \in 1..MaxParallel
  /\ overall_status = "pending"
  /\ start_time = None
  /\ end_time = None
  /\ use_parallel = FALSE
  /\ pc = "constructed"
  /\ group_idx = 0
  /\ seq_idx = 0
  /\ queue = <<>>
  /\ max_workers = 0
  /\ futures_done = <<>>
  /\ collected = {}
  /\ config \in BaseConfigs
  /\ generator_exact = TRUE
  /\ target_records = 0
  /\ total_generated = 0
  /\ batch_count = 0
  /\ batch_data = 0
  /\ batch_defect = "none"
  /\ conn = "none"
  /\ table \in MetadataTablesBefore
  /\ prior_rows = table.rows
  /\ write_log = <<>>
  /\ exc = None
  /\ result = None
  /\ epc = "dw_constructed"

NextDataset ==
  \/ DatasetSetupDatabase
  \/ DatasetSetupDatabaseRaises
  \/ DatasetOrchestratorExecute
  \/ DatasetOrchestratorStep
  \/ DatasetStoreMetadata
  \/ DatasetStoreMetadataRaises
  \/ DatasetExcept
  \/ DatasetFinally

InitWorkflow == InitEntity \/ InitDataset

NextWorkflow == NextEntity \/ NextDataset

SpecWorkflow == InitWorkflow /\ [][NextWorkflow]_vars

-----------------------------------------------------------------------------
(* The dependency graph of the DatasetSpec, restricted to keys of workflows *)

WorkflowKeys == Range(workflows)

\* "a depends on b", both keys of workflows.
DependsOn(a, b) ==
  a \in WorkflowKeys /\ b \in WorkflowKeys /\ b \in DepsOf(dependencies, a)

Prerequisites(S) == {b \in WorkflowKeys : \E a \in S : DependsOn(a, b)}

RECURSIVE Closure(_, _)
Closure(S, n) == IF n = 0 THEN S ELSE Closure(S \cup Prerequisites(S), n - 1)

\* The workflows a depends on, directly or through others.
Reachable(a) == Closure(Prerequisites({a}), Cardinality(WorkflowKeys))

OnCycle(a) == a \in Reachable(a)

Cyclic == \E a \in WorkflowKeys : OnCycle(a)

\* The workflows that can never be placed: those on a cycle or above one.
StuckWorkflows ==
  {w \in WorkflowKeys : OnCycle(w) \/ \E c \in Reachable(w) : OnCycle(c)}

DepsReferOnlyWorkflows ==
  \A k \in DOMAIN dependencies :
    k \in WorkflowKeys /\ dependencies[k] \subseteq WorkflowKeys

\* The positions <<group, place>> at which w occurs in execution_groups.
Positions(w) ==
  {<<i, j>> \in (1..Len(execution_groups)) \X (1..MaxWorkflows + 1) :
     j <= Len(execution_groups[i]) /\ execution_groups[i][j] = w}

GroupIndex(w) ==
  CHOOSE i \in 1..Len(execution_groups) : w \in Range(execution_groups[i])

GroupMembers == UNION {Range(execution_groups[i]) : i \in 1..Len(execution_groups)}

-----------------------------------------------------------------------------
(* Claims on get_execution_order() *)

\* C1: for a DatasetSpec whose dependencies are acyclic and name only keys of
\* workflows, get_execution_order() does not raise, and the groups it returns
\* hold every key of workflows exactly once, with every prerequisite in a
\* strictly earlier group than the workflow that depends on it.
C1_ExecutionOrderValid ==
  (order_pc \in {"returned", "raised"} /\ DepsReferOnlyWorkflows /\ ~Cyclic) =>
    /\ order_pc = "returned"
    /\ GroupMembers = WorkflowKeys
    /\ \A w \in WorkflowKeys : Cardinality(Positions(w)) = 1
    /\ \A a, b \in WorkflowKeys :
         DependsOn(a, b) => GroupIndex(b) < GroupIndex(a)

\* C1 witness: a chain of three workflows returned as three groups.
C1_Witness ==
  /\ order_pc = "returned"
  /\ ~Cyclic /\ DepsReferOnlyWorkflows
  /\ Len(workflows) = 3
  /\ Len(execution_groups) = 3

\* C2: for a DatasetSpec whose dependencies, restricted to keys of workflows,
\* hold a cycle, get_execution_order() never returns (no partial order); while
\* it is in its loop it can always take another iteration, and every iteration
\* either raises or removes at least one workflow from remaining_workflows, so
\* the loop cannot run forever; and the error it raises names exactly the
\* workflows that could not be placed.
C2_CycleRaises ==
  /\ [](order_pc = "returned" => ~Cyclic)
  /\ [](order_pc = "raised" /\ Cyclic => raised_remaining = StuckWorkflows)
  /\ [](order_pc = "loop" /\ Cyclic => ENABLED (OrderIteration \/ OrderStuck))
  /\ [][order_pc = "loop" =>
          \/ order_pc' = "raised"
          \/ /\ order_pc' = "loop"
             /\ Cardinality(remaining_workflows') < Cardinality(remaining_workflows)
          \/ order_pc' = "returned" /\ remaining_workflows = {}]_vars

\* C2 witness: the error is raised after one group was placed, naming the rest.
C2_Witness ==
  /\ order_pc = "raised"
  /\ Cyclic
  /\ Len(execution_groups) = 1
  /\ raised_remaining # WorkflowKeys
  /\ \E w \in raised_remaining : ~OnCycle(w)

-----------------------------------------------------------------------------
(* Properties of DatasetOrchestrator.execute (SpecOrch) *)

Terminal(n) == workflow_steps[n].status \in {"completed", "failed"}

Started(n) == workflow_steps[n].status # "pending"

GroupPairs ==
  {<<i, j>> \in (1..Len(execution_groups)) \X (1..Len(execution_groups)) : i < j}

Returned == pc = "returned"

FailedSteps == {n \in DOMAIN workflow_steps : workflow_steps[n].status = "failed"}

\* C3: the groups run as successive waves: whenever a step of a later group
\* has left PENDING (it is RUNNING or further), every step of every earlier
\* group is COMPLETED or FAILED, in parallel and in sequential mode alike.
C3_WaveBarrier ==
  \A p \in GroupPairs :
    \A b \in Range(execution_groups[p[2]]) :
      Started(b) => \A a \in Range(execution_groups[p[1]]) : Terminal(a)

\* C3 witness: in parallel mode, after a first group of two steps was waited
\* for, a step of the second group is running.
C3_Witness ==
  /\ use_parallel
  /\ Len(execution_groups) = 2
  /\ Len(execution_groups[1]) = 2
  /\ \E b \in Range(execution_groups[2]) : workflow_steps[b].status = "running"
  /\ \A a \in Range(execution_groups[1]) : Terminal(a)

\* C4: a step is marked RUNNING only after all the steps it depends on are
\* terminal: a step that has left PENDING has every depends_on step
\* COMPLETED or FAILED.
C4_DependenciesTerminal ==
  \A n \in DOMAIN workflow_steps :
    Started(n) => \A d \in workflow_steps[n].depends_on : Terminal(d)

\* C4 witness: a step with two prerequisites is running.
C4_Witness ==
  \E n \in DOMAIN workflow_steps :
    /\ workflow_steps[n].status = "running"
    /\ Cardinality(workflow_steps[n].depends_on) = 2

\* C5: once a step of a group has failed, no step of a later group is ever
\* started: those steps are PENDING in every later state, at the return of
\* execute() included, and the overall status at return is FAILED.
C5_FailureStopsLaterGroups ==
  /\ \A p \in GroupPairs :
       (\E a \in Range(execution_groups[p[1]]) : workflow_steps[a].status = "failed")
         => \A b \in Range(execution_groups[p[2]]) : workflow_steps[b].status = "pending"
  /\ (Returned /\ FailedSteps # {}) => overall_status = "failed"

\* C5 witness: execute() has returned after a failure in the first of three
\* groups.
C5_Witness ==
  /\ Returned
  /\ Len(execution_groups) = 3
  /\ \E a \in Range(execution_groups[1]) : workflow_steps[a].status = "failed"

\* C6: when a step of a later group fails, the steps of the earlier groups
\* keep status COMPLETED and their recorded WorkflowResult, the failing step
\* is FAILED with a non-null error message, and the overall status at return
\* is FAILED.
C6_LaterFailureKeepsEarlier ==
  /\ [](\A p \in GroupPairs :
          \A f \in Range(execution_groups[p[2]]) :
            workflow_steps[f].status = "failed" =>
              /\ workflow_steps[f].error_message # None
              /\ \A a \in Range(execution_groups[p[1]]) :
                   /\ workflow_steps[a].status = "completed"
                   /\ workflow_steps[a].result =
                        CompletedResult(workflow_steps[a].target_records))
  /\ []((Returned /\ \E p \in GroupPairs :
            \E f \in Range(execution_groups[p[2]]) :
              workflow_steps[f].status = "failed")
          => overall_status = "failed")
  /\ [][\A n \in DOMAIN workflow_steps :
          workflow_steps[n].status = "completed" =>
            /\ workflow_steps'[n].status = "completed"
            /\ workflow_steps'[n].result = workflow_steps[n].result]_vars

\* C6 witness: execute() has returned, the second group's step failed and
\* the two steps of the first group are completed.
C6_Witness ==
  /\ Returned
  /\ Len(execution_groups) = 2
  /\ Len(execution_groups[1]) = 2
  /\ \E f \in Range(execution_groups[2]) : workflow_steps[f].status = "failed"
  /\ \A a \in Range(execution_groups[1]) : workflow_steps[a].status = "completed"

\* C7: when execute() returns, the overall status is COMPLETED if and only
\* if every step is COMPLETED and FAILED otherwise; it is never PENDING or
\* RUNNING.
C7_OverallStatusAtReturn ==
  Returned =>
    /\ overall_status \in {"completed", "failed"}
    /\ overall_status = "completed" <=>
         \A n \in DOMAIN workflow_steps : workflow_steps[n].status = "completed"

\* C7 witness: execute() has returned COMPLETED for a dataset of two
\* workflows run in parallel.
C7_Witness ==
  /\ Returned
  /\ overall_status = "completed"
  /\ use_parallel
  /\ Len(workflows) = 2
  /\ Len(execution_groups) = 1

\* C17: in every execution summary total_records_generated is the sum of
\* records_generated over the steps in status COMPLETED, workflows_completed
\* and workflows_failed are the numbers of steps in status COMPLETED and
\* FAILED, and when every step succeeded total_records_generated is the sum
\* of the spec's target counts.
C17_SummaryTotals ==
  /\ ExecutionSummary.total_records_generated =
       SumRecords({n \in DOMAIN workflow_steps : workflow_steps[n].status = "completed"})
  /\ ExecutionSummary.workflows_completed =
       Cardinality({n \in DOMAIN workflow_steps : workflow_steps[n].status = "completed"})
  /\ ExecutionSummary.workflows_failed =
       Cardinality({n \in DOMAIN workflow_steps : workflow_steps[n].status = "failed"})
  /\ (\A n \in DOMAIN workflow_steps : workflow_steps[n].status = "completed")
       => /\ ExecutionSummary.total_records_generated = SumCounts(WorkflowKeys)
          /\ ExecutionSummary.total_records_generated =
               ExecutionSummary.total_target_records

\* C17 witness: both steps of a spec with counts 1 and 2 succeeded and the
\* summary totals 3.
C17_Witness ==
  /\ Returned
  /\ Len(workflows) = 2
  /\ counts[workflows[1]] = 1 /\ counts[workflows[2]] = 2
  /\ \A n \in DOMAIN workflow_steps : workflow_steps[n].status = "completed"
  /\ ExecutionSummary.total_records_generated = 3

\* C18: get_execution_summary() is a pure snapshot: a call before, during
\* or after execute(), any number of times, starts no step and leaves
\* every WorkflowStep field, overall_status, start_time, end_time,
\* execution_groups and the DatasetSpec unchanged, and so returns the same
\* summary when called again.
C18_SummaryPure ==
  [][summary_calls' # summary_calls =>
       /\ workflow_steps' = workflow_steps
       /\ overall_status' = overall_status
       /\ start_time' = start_time
       /\ end_time' = end_time
       /\ execution_groups' = execution_groups
       /\ workflows' = workflows
       /\ counts' = counts
       /\ dependencies' = dependencies
       /\ Running' = Running
       /\ ExecutionSummary' = ExecutionSummary]_vars

\* C18 witness: the summary was taken twice while a step was running.
C18_Witness ==
  /\ summary_calls = 2
  /\ Running # {}
  /\ overall_status = "running"

InGroup == group_idx \in 1..Len(execution_groups)

\* C15: at every moment of execute() the number of RUNNING steps is at most
\* min(size of the current group, max_parallel_workflows) when use_parallel
\* is true and the group has more than one member, and at most 1 otherwise;
\* the running steps are members of the current group.
C15_RunningBound ==
  /\ Running # {} => InGroup /\ Running \subseteq Range(CurrentGroup)
  /\ (InGroup /\ use_parallel /\ Len(CurrentGroup) > 1) =>
       Cardinality(Running) <= Min(Len(CurrentGroup), max_parallel_workflows)
  /\ (InGroup /\ ~(use_parallel /\ Len(CurrentGroup) > 1)) =>
       Cardinality(Running) <= 1

\* C15 witness: a group of three is run by a pool of two workers: two steps
\* are running and the third waits in the queue.
C15_Witness ==
  /\ InGroup
  /\ use_parallel
  /\ Len(CurrentGroup) = 3
  /\ max_parallel_workflows = 2
  /\ Cardinality(Running) = 2
  /\ Len(queue) = 1

-----------------------------------------------------------------------------
(* Properties of BaseWorkflow.execute (SpecEntity) *)

EntityReturned == epc = "returned"

RECURSIVE SumRows(_)
SumRows(log) == IF log = <<>> THEN 0 ELSE Head(log).rows + SumRows(Tail(log))

\* C8: for a positive target_records and a positive batch_size (a divisor
\* of the target or not), with a Generator that returns exactly the count
\* asked for, an execute that ends COMPLETED reports
\* records_generated = target_records.
C8_CompletedGeneratesTarget ==
  (EntityReturned /\ result.status = "completed" /\ generator_exact
     /\ target_records > 0 /\ config.batch_size > 0)
    => result.records_generated = target_records

\* C8 witness: a target of 3 was completed in batches of 2 and 1.
C8_Witness ==
  /\ EntityReturned
  /\ result.status = "completed"
  /\ generator_exact
  /\ target_records = 3
  /\ config.batch_size = 2
  /\ batch_count = 2

\* C9: within one execute only the first batch is written with
\* config.write_mode and every later batch with append; so after k stored
\* batches the table holds the sum of the k batch sizes under truncate, and
\* the prior row count plus that sum under append.
C9_TruncateOnce ==
  (epc \in {"loop", "store", "except", "finally", "returned"}) =>
    /\ Len(write_log) = batch_count
    /\ \A i \in 1..Len(write_log) :
         write_log[i].how = IF i = 1 THEN config.write_mode ELSE "append"
    /\ (batch_count >= 1 /\ config.write_mode = "truncate")
         => table.exists /\ table.rows = SumRows(write_log)
    /\ (batch_count >= 1 /\ config.write_mode = "append")
         => table.exists /\ table.rows = prior_rows + SumRows(write_log)

\* C9 witness: three batches were stored under truncate over a table that
\* held a row, and the table holds the three batches.
C9_Witness ==
  /\ EntityReturned
  /\ config.write_mode = "truncate"
  /\ prior_rows = 1
  /\ batch_count = 3
  /\ table.rows = 3

\* C10: when a batch raises after some batches were stored, the result is
\* FAILED, carries the error message, and its records_generated equals the
\* total_generated reached before the failing batch.
C10_FailureReportsProgress ==
  (EntityReturned /\ result.status = "failed" /\ batch_count >= 1) =>
    /\ result.error_message = exc
    /\ result.records_generated = total_generated

-----------------------------------------------------------------------------
(* Properties of DatasetSpec validation and orchestrator construction
   (SpecConstruct) *)

HasNonPositiveCount == \E w \in WorkflowKeys : counts[w] <= 0

HasUnknownName == \E w \in WorkflowKeys : w \notin AVAILABLE_WORKFLOWS

HasBadDependency ==
  \E k \in DOMAIN dependencies :
    k \notin WorkflowKeys \/ \E d \in dependencies[k] : d \notin WorkflowKeys

ValidateCalled == validate_result # NotValidated

-----------------------------------------------------------------------------
(* Properties of execute() of either workflow class (SpecWorkflow) *)

IsDatasetWorkflow == pc # "none"

Handling == epc \in {"except", "dw_except"}

Leaving == epc \in {"finally", "dw_finally"}

\* C13: EntityWorkflow.execute and DatasetWorkflow.execute never propagate
\* an exception: every exception raised inside is taken by the handler,
\* which leads to the return; the WorkflowResult returned is COMPLETED or
\* FAILED, never PENDING or RUNNING, and its error_message is non-null
\* exactly when it is FAILED.
C13_NeverPropagates ==
  /\ [](epc = "returned" =>
          /\ result.status \in {"completed", "failed"}
          /\ (result.error_message # None) <=> (result.status = "failed"))
  /\ [](Handling => ENABLED (EntityExcept \/ DatasetExcept))
  /\ [](Leaving => ENABLED (EntityFinally \/ DatasetFinally))
  /\ [][Handling => Leaving' /\ result'.status = "failed"]_vars
  /\ [][Leaving => epc' = "returned" /\ result' = result]_vars

\* C13 witness: a DatasetWorkflow returned FAILED with the message about
\* failed workflows, built from the summary.
C13_Witness ==
  /\ IsDatasetWorkflow
  /\ epc = "returned"
  /\ result.status = "failed"
  /\ result.error_message = "workflows failed"

\* C14: the status of the result of DatasetWorkflow.execute is determined
\* by the orchestrator's overall status alone: the orchestrator always runs,
\* and the result is COMPLETED exactly when the orchestrator's status is.
C14_MetadataBestEffort ==
  (IsDatasetWorkflow /\ epc = "returned") =>
    /\ pc = "returned"
    /\ (result.status = "completed") <=> (overall_status = "completed")

\* C16: the effective write_mode of a step's config is truncate exactly
\* when the step's workflow is the first key of spec.workflows in insertion
\* order and append for every other step, whatever write_mode the base
\* config holds; the other fields are the base config's; the override is
\* applied to a clone and the shared base config is never modified.
C16_TruncateFirstKey ==
  /\ [](IsDatasetWorkflow =>
          \A n \in DOMAIN workflow_steps :
            /\ StepConfig(config, workflow_steps[n]).write_mode =
                 IF n = workflows[1] THEN "truncate" ELSE "append"
            /\ StepConfig(config, workflow_steps[n]).batch_size = config.batch_size
            /\ StepConfig(config, workflow_steps[n]).max_records = config.max_records)
  /\ [][IsDatasetWorkflow => config' = config]_vars

\* C16 witness: the base config says append; the first key of workflows runs
\* in the second group, after the other step completed.
C16_Witness ==
  /\ IsDatasetWorkflow
  /\ config.write_mode = "append"
  /\ Len(workflows) = 2
  /\ Len(execution_groups) = 2
  /\ execution_groups[2] = <<workflows[1]>>
  /\ workflow_steps[workflows[1]].status = "running"
  /\ workflow_steps[workflows[2]].status = "completed"

\* C19: a DatasetSpec with a cyclic dependency graph is rejected at
\* construction or by validate(): it never passes validate(), and no
\* orchestrator is ever constructed for it, so none of its steps starts.
C19_CyclicRejected ==
  /\ validate_result = Validated => ~Cyclic
  /\ pc = "constructed" => ~Cyclic

\* C20: a DatasetSpec constructed without explicit dependencies receives
\* default dependencies restricted to the names present in workflows: every
\* key and every prerequisite is a key of workflows, and validate() does
\* not raise about the dependencies.
C20_DefaultsRestricted ==
  (Len(workflows) > 0 /\ dependencies = PostInitDependencies(workflows, <<>>)) =>
    /\ DepsReferOnlyWorkflows
    /\ (ValidateCalled /\ ~HasNonPositiveCount /\ ~HasUnknownName)
         => validate_result = Validated

-----------------------------------------------------------------------------
(* Construction of a DatasetSpec *)

LegacyGiven ==
  spec_args.people_count # LegacyNone \/ spec_args.companies_count # LegacyNone

\* The constructor has run __post_init__.
PostInitDone == spec_args.method = "init" /\ spec_pc # "post_init"

\* C21: DatasetSpec(...) with a legacy count and a non-empty workflows
\* mapping raises the construction error; with legacy counts only, the
\* workflows are exactly the given counts under 'companies' and 'people',
\* companies first, and both legacy fields are None afterwards.
C21_LegacyCounts ==
  (PostInitDone /\ LegacyGiven) =>
     IF Len(spec_args.workflows) > 0
     THEN spec_pc = "conflict"
     ELSE /\ spec_pc = "ready"
          /\ Range(workflows) =
               {w \in {"companies", "people"} :
                  \/ w = "companies" /\ spec_args.companies_count # LegacyNone
                  \/ w = "people" /\ spec_args.people_count # LegacyNone}
          /\ Len(workflows) = Cardinality(Range(workflows))
          /\ Len(workflows) = 2 => workflows[1] = "companies"
          /\ "companies" \in Range(workflows)
               => counts["companies"] = spec_args.companies_count[1]
          /\ "people" \in Range(workflows)
               => counts["people"] = spec_args.people_count[1]
          /\ DOMAIN counts = Range(workflows)
          /\ people_count = LegacyNone
          /\ companies_count = LegacyNone

C21_Witness ==
  /\ PostInitDone
  /\ spec_pc = "ready"
  /\ spec_args.people_count = LegacyInt(60)
  /\ spec_args.companies_count = LegacyInt(1)
  /\ workflows = <<"companies", "people">>
  /\ counts["people"] = 60

\* The spec passes every check of validate() but the ratio check.
OtherwiseValid ==
  /\ spec_pc = "ready"
  /\ ValidateOK(workflows, counts, dependencies)

\* C22: the people-to-companies ratio check is not fatal.  For every spec
\* that is otherwise valid, validate() returns without raising whether or
\* not the ratio is inside [5, 50] (outside it, a warning is emitted), the
\* orchestrator can be constructed (for an acyclic spec), and execute() can
\* be called on it.
C22_RatioNonFatal ==
  /\ (OtherwiseValid /\ ValidateCalled)
       => /\ validate_result = Validated
          /\ ratio_warnings = validate_full_dataset_ratios(workflows, counts)
  /\ (OtherwiseValid /\ ~Cyclic /\ pc = "none" /\ order_pc # "loop")
       => ENABLED ConstructOrchestrator
  /\ (OtherwiseValid /\ pc = "constructed") => ENABLED Execute

C22_Witness ==
  /\ OtherwiseValid
  /\ validate_full_dataset_ratios(workflows, counts) = {"ratio_high"}
  /\ ratio_warnings = {"ratio_high"}
  /\ validate_result = Validated
  /\ pc = "returned"
  /\ overall_status = "completed"

\* get_total_records(): sum(self.workflows.values())
get_total_records == SumCounts(Range(workflows))

\* DatasetSpec.from_template(template_name) has returned or raised.
FromTemplateDone ==
  spec_args.method = "from_template" /\ spec_pc # "from_template"

\* C23: for every registered template name, from_template(name) returns a
\* spec on which validate() does not raise, get_total_records() is the sum
\* of the counts the template declares, and get_execution_order() returns
\* [[companies], [people]]; for a name that is not registered,
\* from_template raises the unknown-template error.
C23_Templates ==
  FromTemplateDone =>
    IF spec_args.template_name \in {"small_demo", "medium_dev", "large_production"}
    THEN LET declared == DATASET_TEMPLATES[spec_args.template_name].counts
         IN  /\ spec_pc = "ready"
             /\ ValidateCalled => validate_result = Validated
             /\ get_total_records = declared["companies"] + declared["people"]
             /\ order_pc # "raised"
             /\ order_pc = "returned"
                  => execution_groups = << <<"companies">>, <<"people">> >>
    ELSE spec_pc = "unknown_template"

C23_Witness ==
  /\ FromTemplateDone
  /\ spec_args.template_name = "large_production"
  /\ validate_result = Validated
  /\ get_total_records = 5200
  /\ order_pc = "returned"
  /\ execution_groups = << <<"companies">>, <<"people">> >>

-----------------------------------------------------------------------------
(* Failures inside an execution group *)

\* The groups that hold a FAILED step.
FailedGroups ==
  {i \in 1..Len(execution_groups) :
     \E n \in Range(execution_groups[i]) : workflow_steps[n].status = "failed"}

\* C24: when a step of a group fails, every member of that group reaches
\* COMPLETED or FAILED before the group's outcome is acted on: when execute
\* returns, no sibling of a failed step is PENDING or RUNNING, in parallel
\* and in sequential dispatch.
C24_SiblingsDrained ==
  Returned => \A i \in FailedGroups :
                \A m \in Range(execution_groups[i]) : Terminal(m)

\* C25: the exception the orchestrator raises for a group with failed
\* members names every workflow of that group whose step is FAILED.
C25_NamesEveryFailure ==
  (pc \in {"except", "finally", "returned"} /\ FailedGroups # {})
     => raised_names = GroupFailures(CurrentGroup)

-----------------------------------------------------------------------------
(* Limits and validation of the batches of BaseWorkflow.execute *)

\* C26: config.max_records is an upper bound on what one execute call
\* generates and stores, whatever target_records is (checked for the
\* Generators that return exactly the count asked for).
C26_MaxRecordsBound ==
  (epc # "none" /\ generator_exact)
     => /\ total_generated <= config.max_records
        /\ SumRows(write_log) <= config.max_records

-----------------------------------------------------------------------------
(* The shape of the groups of get_execution_order() *)

\* The position of a key in the insertion order of workflows.
InsertionIndex(w) == CHOOSE p \in 1..Len(workflows) : workflows[p] = w

\* C27: get_execution_order() orders the members of each group by their
\* insertion order in workflows: of two workflows of one group, the one
\* inserted earlier comes earlier, on every call.
C27_InsertionOrder ==
  order_pc = "returned" =>
    \A i \in 1..Len(execution_groups) :
      \A j, k \in 1..Len(execution_groups[i]) :
        j < k => InsertionIndex(execution_groups[i][j])
                   < InsertionIndex(execution_groups[i][k])

\* The length of the longest dependency chain below w among the keys of
\* workflows, followed for at most n links.
RECURSIVE ChainLength(_, _)
ChainLength(w, n) ==
  LET below == DepsOf(dependencies, w) \cap WorkflowKeys
  IN  IF n = 0 \/ below = {} THEN 0
      ELSE LET lengths == {ChainLength(d, n - 1) : d \in below}
           IN  1 + CHOOSE m \in lengths : \A l \in lengths : l <= m

\* C28: every group returned by get_execution_order() is maximal: each
\* workflow is in the earliest group possible, the one whose 0-based index
\* is the length of the longest dependency chain below the workflow (0 for
\* a workflow with no prerequisite among workflows).
C28_GroupsMaximal ==
  order_pc = "returned" =>
    \A w \in WorkflowKeys :
      /\ w \in GroupMembers
      /\ GroupIndex(w) - 1 = ChainLength(w, Len(workflows))

C28_Witness ==
  /\ order_pc = "returned"
  /\ Len(workflows) = 3
  /\ Len(execution_groups) = 2
  /\ Len(execution_groups[1]) = 2
  /\ \E w \in WorkflowKeys : ChainLength(w, Len(workflows)) = 1

-----------------------------------------------------------------------------
(* The status of a WorkflowStep *)

\* C29: during execute each step's status changes only from PENDING to
\* RUNNING and from RUNNING to COMPLETED or FAILED: a COMPLETED or FAILED
\* step never changes status again, no step goes from PENDING to COMPLETED
\* directly, and READY and SKIPPED are never assigned.
C29_StatusLifecycle ==
  /\ [](\A n \in DOMAIN workflow_steps :
          workflow_steps[n].status \in {"pending", "running", "completed", "failed"})
  /\ [][\A n \in DOMAIN workflow_steps :
          LET before == workflow_steps[n].status
              after  == workflow_steps'[n].status
          IN  before # after
                => \/ before = "pending" /\ after = "running"
                   \/ /\ before = "running"
                      /\ after \in {"completed", "failed"}]_vars

C29_Witness ==
  /\ Returned
  /\ \E n \in DOMAIN workflow_steps : workflow_steps[n].status = "completed"
  /\ \E n \in DOMAIN workflow_steps : workflow_steps[n].status = "failed"
  /\ \E n \in DOMAIN workflow_steps : workflow_steps[n].status = "pending"

-----------------------------------------------------------------------------
(* Validation of the generated batches *)

\* The batch generate_batch_dicts returned last is empty or defective.
BatchFails == batch_defect # "none"

\* C30: no batch that fails validation (empty, a required field missing or
\* null, a business rule broken, inconsistent field sets, a duplicated id)
\* is written to the store: only a batch that passed is handed to
\* execute_batch, a failing batch takes the step to FAILED, and after it no
\* batch of the step is generated or written.
C30_InvalidBatchNeverWritten ==
  /\ [](epc = "store" => (~BatchFails /\ batch_data > 0))
  /\ [](BatchFails => epc \in {"except", "finally", "returned"})
  /\ []((EntityReturned /\ BatchFails) => result.status = "failed")
  /\ [][BatchFails => /\ batch_data' = batch_data
                       /\ batch_defect' = batch_defect
                       /\ table' = table
                       /\ write_log' = write_log
                       /\ total_generated' = total_generated]_vars

C30_Witness ==
  /\ EntityReturned
  /\ batch_defect = "business_rule"
  /\ result.status = "failed"
  /\ Len(write_log) = 1
  /\ table.rows = write_log[1].rows

-----------------------------------------------------------------------------
(* Single execution of steps and batches *)

\* The work items of the pool of the current group: queued, being run by a
\* worker, finished.
Queued == Range(queue)

Finished == DOMAIN futures_done

\* C31: in one execute run every step is executed at most once and by one
\* worker: a work item is queued once and is never at once queued and
\* running or finished; a step is marked running only when it is PENDING
\* and is taken by that worker alone; a COMPLETED or FAILED step is never
\* touched again; and after a batch failed no batch of the step is
\* generated or written again.
C31_ExecutedOnce ==
  /\ [](/\ IsInjective(queue)
        /\ Queued \cap Finished = {}
        /\ \A n \in Queued : workflow_steps[n].status = "pending"
        /\ \A n \in Finished : Terminal(n))
  /\ [][\A n \in DOMAIN workflow_steps :
          workflow_steps'[n] # workflow_steps[n]
            => /\ ~Terminal(n)
               /\ workflow_steps[n].status = "pending"
                    => \/ n \in Queued /\ n \notin Range(queue')
                       \/ pc = "sequential" /\ n = CurrentGroup[seq_idx]]_vars
  /\ [][(epc \in {"except", "finally", "returned"})
          => (UNCHANGED <<batch_data, batch_defect, batch_count, write_log,
                          table, total_generated>>)]_vars

C31_Witness ==
  /\ Returned
  /\ epc = "returned"
  /\ max_workers = 2
  /\ \E n \in Finished : workflow_steps[n].status = "failed"
  /\ \E n \in Finished : workflow_steps[n].status = "completed"

-----------------------------------------------------------------------------
(* The batches of BaseWorkflow.execute *)

\* The loop is about to ask the Generator for a batch.
Requesting == epc = "loop" /\ total_generated < target_records

\* ceil(a / b) for a >= 0 and b > 0.
Ceil(a, b) == (a + b - 1) \div b

\* C32: every request to the Generator asks for
\* min(config.batch_size, target_records - total_generated) records, a
\* number between 1 and config.batch_size; a run that ends COMPLETED with a
\* Generator that returns what is asked for wrote
\* ceil(target_records / batch_size) batches, all of batch_size records but
\* possibly the last, which is smaller.
C32_BatchSizes ==
  /\ Requesting
       => /\ BatchSize \in 1..config.batch_size
          /\ BatchSize <= target_records - total_generated
          /\ \/ BatchSize = config.batch_size
             \/ BatchSize = target_records - total_generated
  /\ (EntityReturned /\ generator_exact /\ result.status = "completed")
       => /\ batch_count = Ceil(target_records, config.batch_size)
          /\ Len(write_log) = batch_count
          /\ \A i \in 1..Len(write_log) :
               /\ i < Len(write_log) => write_log[i].rows = config.batch_size
               /\ write_log[i].rows \in 1..config.batch_size

C32_Witness ==
  /\ EntityReturned
  /\ generator_exact
  /\ result.status = "completed"
  /\ target_records = 3
  /\ config.batch_size = 2
  /\ Len(write_log) = 2
  /\ write_log[2].rows = 1

-----------------------------------------------------------------------------
(* An explicitly empty dependencies mapping *)

\* C33: a DatasetSpec built with workflows {companies, people} and an
\* explicitly empty dependencies mapping has no dependencies, and
\* get_execution_order() returns one group that holds both workflows.
C33_EmptyDependencies ==
  (/\ PostInitDone
   /\ spec_pc = "ready"
   /\ ~LegacyGiven
   /\ Range(spec_args.workflows) = {"companies", "people"}
   /\ DOMAIN spec_args.dependencies = {})
    => /\ DOMAIN dependencies = {}
       /\ order_pc = "returned"
            => /\ Len(execution_groups) = 1
               /\ Range(execution_groups[1]) = {"companies", "people"}

-----------------------------------------------------------------------------
(* The fields of a WorkflowStep *)

C35_AcceptedNamesInstantiable ==
  validate_result = Validated
    => \A n \in DOMAIN workflow_steps :
         workflow_steps[n].status = "failed"
           => CanCreateWorkflow(workflow_steps[n].workflow_name)

Truncating ==
  {n \in DOMAIN workflow_steps :
     workflow_steps[n].config_overrides.write_mode = "truncate"}

\* C36: in every orchestrator run exactly one step has the truncate
\* override, and no step with the append override has started while the
\* truncating step has not, whatever the insertion order of the workflows
\* and the dependency graph.
C36_TruncateStartsFirst ==
  /\ Cardinality(Truncating) = 1
  /\ \A n \in DOMAIN workflow_steps \ Truncating :
       Started(n) => \A t \in Truncating : Started(t)

\* C37: execute(target_records) terminates for every target_records and
\* every positive batch_size when each Generator and Store call returns or
\* raises: it eventually returns; every completed loop iteration strictly
\* increases total_generated (an empty batch fails the validation instead of
\* being stored), so there are at most target_records iterations.
C37_ExecuteTerminates ==
  /\ <>EntityReturned
  /\ [][batch_count' # batch_count
         => /\ batch_count' = batch_count + 1
            /\ total_generated' > total_generated]_vars
  /\ [](batch_count <= target_records /\ batch_count <= total_generated)

C37_Witness ==
  /\ EntityReturned
  /\ result.status = "completed"
  /\ ~generator_exact
  /\ config.batch_size > 1
  /\ target_records > 1
  /\ batch_count = target_records

\* C38: if every step's workflow execution terminates, an execute() that
\* was called eventually returns, in parallel and in sequential mode, also
\* when max_parallel_workflows is smaller than the group and when steps
\* fail; when it has returned no step is RUNNING and end_time is set.
C38_ExecuteReturns ==
  /\ (pc # "constructed") ~> Returned
  /\ [](Returned => (Running = {} /\ end_time # None /\ queue = <<>>))

C38_Witness ==
  /\ Returned
  /\ use_parallel
  /\ max_workers = 1
  /\ Cardinality(DOMAIN futures_done) >= 2
  /\ \E n \in DOMAIN futures_done : workflow_steps[n].status = "failed"
  /\ Running = {}
  /\ end_time # None

====
